---------------------------- MODULE Spec2Model ----------------------------
(***************************************************************************)
(* A model of the YouTube harvesting actor of src/main.py: the dispatch    *)
(* loop of main, the channel and search harvesters, the per-item           *)
(* extraction of advanced_extract_video, the readiness cascade of          *)
(* goto_and_ready, the deduplicating save_dataset and the signal handler.  *)
(*                                                                         *)
(* Python values are modelled as follows.  None is the string NULL.  An    *)
(* Optional[dict] is a set holding at most one record.  A URL is a record  *)
(* [host, path, id, extra, frag]: path is the kind of path ("watch" for    *)
(* /watch, "shorts" for /shorts/<id>, "vid" for youtu.be/<id>, ...), id    *)
(* is the identifier the URL carries (the v parameter of a watch link, the *)
(* path segment otherwise), extra says that further query parameters       *)
(* follow, frag that a #fragment follows.                                  *)
(***************************************************************************)
EXTENDS Integers, Sequences, FiniteSets, TLC

NULL == "null"

\* ---------------------------------------------------------------- bounds

\* Longest startUrls list, longest searchTerms list.
MaxTargets == 2
MaxTerms == 1
\* Largest per-type cap and largest maxResults an input gives.
MaxCap == 2
\* Most anchors one evaluation of the listing page returns.
MaxHrefs == 2

\* ------------------------------------------------------------- universe

Ids == {"a", "b"}
Keywords == {"kw"}

WWW == "www.youtube.com"
SHORT_HOST == "youtu.be"

Url(h, p, i, x, f) == [host |-> h, path |-> p, id |-> i, extra |-> x, frag |-> f]

WatchUrl(i) == Url(WWW, "watch", i, FALSE, FALSE)
ShortsUrl(i) == Url(WWW, "shorts", i, FALSE, FALSE)
BlankUrl == Url("", "blank", NULL, FALSE, FALSE)
ChannelUrl(c) == Url(WWW, "channel", c, FALSE, FALSE)
ResultsUrl(k) == Url(WWW, "results", k, TRUE, FALSE)

\* ---------------------------------------------------------- URL helpers

\* re.search(r"/shorts/([A-Za-z0-9_-]{11})", path): the path is a short-form
\* path carrying a well-formed identifier.
ShortsMatch(url) == url.path = "shorts" /\ url.id \in Ids

\* An identifier as it stands in a URL with an escaped "&" in it
\* ("a%26b"); parse_qs gives its decoded value ("a&b").
EscapedId == "a%26b"

\* f"https://www.youtube.com/watch?v={qs['v'][0]}": the URL built from the
\* decoded value of the v parameter.  A decoded "&" is written as it is, so
\* that in the URL built the v parameter ends before it and a further
\* parameter follows.
WatchFromQuery(v) ==
    IF v = EscapedId THEN Url(WWW, "watch", "a", TRUE, FALSE)
    ELSE Url(WWW, "watch", v, FALSE, FALSE)

\* The youtu.be branch takes the identifier from the path as it stands, the
\* watch branch from the parsed query.
clean_video_url(url) ==
    IF ShortsMatch(url) THEN Url(WWW, "shorts", url.id, FALSE, FALSE)
    ELSE IF url.host = SHORT_HOST /\ url.id # NULL
         THEN Url(WWW, "watch", url.id, FALSE, FALSE)
    ELSE IF url.path = "watch" /\ url.id # NULL
         THEN WatchFromQuery(url.id)
    ELSE [url EXCEPT !.frag = FALSE]

extract_video_id(url) ==
    IF url.host = SHORT_HOST THEN url.id
    ELSE IF url.path = "watch" /\ url.id # NULL THEN url.id
    ELSE IF ShortsMatch(url) THEN url.id
    ELSE NULL

is_shorts_url(url) == url.path = "shorts"

is_video_url(url) ==
    \/ url.path = "watch" /\ url.id # NULL
    \/ url.path = "shorts"
    \/ url.host = SHORT_HOST

is_channel_url(url) == url.path \in {"channel", "channel/videos", "channel/shorts"}

\* page.url.split('?')[0]: the query, and with it the v parameter of a watch
\* link, is cut off.
url_base(url) ==
    IF url.path \in {"watch", "results"}
    THEN <<url.host, url.path, NULL>>
    ELSE <<url.host, url.path, url.id>>

\* "/watch" in u, "/shorts/" in u: the substring tests of the harvesters.
HasWatch(url) == url.path = "watch"
HasShorts(url) == url.path = "shorts"


\* A dict's .get(key): None for a key the dict lacks.
Get(rec, key) == IF key \in DOMAIN rec THEN rec[key] ELSE NULL

\* ------------------------------------------------------- storage (dedupe)

\* dataset.push_items takes the new items in slices of CHUNK.
CHUNK == 100

\* vid = it.get("id") or it.get("video_id")
ItemVid(it) == IF Get(it, "id") # NULL THEN it.id ELSE Get(it, "video_id")

\* The mutant of AlreadySaved: the membership test always answers no.
AlreadySaved_never(vid, saved) == FALSE

\* if vid in SAVED_IDS: continue
AlreadySaved(vid, saved) == vid \in saved

\* The loop of save_dataset over items: the items it keeps (new_items) and
\* SAVED_IDS after it.  An item without identifier is kept and not recorded.
RECURSIVE DedupNew(_, _, _)
DedupNew(items, saved, new) ==
    IF items = <<>> THEN [new_items |-> new, saved |-> saved]
    ELSE LET it == Head(items)
             vid == ItemVid(it)
         IN IF vid = NULL THEN DedupNew(Tail(items), saved, Append(new, it))
            ELSE IF AlreadySaved(vid, saved) THEN DedupNew(Tail(items), saved, new)
            ELSE DedupNew(Tail(items), saved \cup {vid}, Append(new, it))

\* The number of slices the push loop sends for n new items.
NChunks(n) == (n + CHUNK - 1) \div CHUNK

\* What has reached the dataset when the push of slice fail_at raises
\* (fail_at = 0: no push raises, every slice arrives).
Pushed(new, fail_at) ==
    IF fail_at = 0 THEN new
    ELSE SubSeq(new, 1, (fail_at - 1) * CHUNK)

\* except Exception: "falling back to local file"
PushFailed(fail_at) == fail_at # 0

\* ------------------------------------------------ navigation / readiness

\* What the three reads of is_page_unavailable see of the page, and which of
\* them raises ("none", "locator", "body", "content").
PageViews ==
    [notfound : BOOLEAN, body_phrase : BOOLEAN, content_phrase : BOOLEAN,
     fail : {"none", "locator", "body", "content"}]

\* The mutant of is_page_unavailable: the body text is not looked at.
is_page_unavailable_nobody(view) ==
    IF view.fail = "locator" THEN FALSE
    ELSE IF view.notfound THEN TRUE
    ELSE IF view.fail \in {"body", "content"} THEN FALSE
    ELSE view.content_phrase

is_page_unavailable(view) ==
    IF view.fail = "locator" THEN FALSE
    ELSE IF view.notfound THEN TRUE
    ELSE IF view.fail = "body" THEN FALSE
    ELSE IF view.body_phrase THEN TRUE
    ELSE IF view.fail = "content" THEN FALSE
    ELSE view.content_phrase

\* What the steps of goto_and_ready after page.goto find: the page as the
\* early and as the late unavailability check see it, and whether each wait
\* or probe succeeds (a timeout or an exception is FALSE: both are caught and
\* the cascade goes on).
ReadySignals ==
    [early : PageViews, late : PageViews, ytinitial : BOOLEAN,
     selector : BOOLEAN, doc_ready : BOOLEAN, html_keywords : BOOLEAN]

\* goto_and_ready from its stop check on: "stopped" is the raise, every other
\* outcome a return.
goto_and_ready(sig, stop) ==
    IF stop THEN "stopped"
    ELSE IF is_page_unavailable(sig.early) THEN "unavailable"
    ELSE IF sig.ytinitial THEN "ready"
    ELSE IF sig.selector THEN "ready_selector"
    ELSE IF sig.doc_ready THEN "ready_doc"
    ELSE IF sig.html_keywords THEN "degraded_html"
    ELSE IF is_page_unavailable(sig.late) THEN "unavailable_late"
    ELSE "degraded"

UnavailableOutcomes == {"unavailable", "unavailable_late"}

\* The outcomes goto_and_ready can return with (the stop flag unset).
ReadyReturns == {goto_and_ready(sig, FALSE) : sig \in ReadySignals}

\* ------------------------------------------------------ metadata resolver

\* A call either returns a value or raises.
Returned(v) == [raised |-> FALSE, rec |-> v]
Raises == [raised |-> TRUE, rec |-> [data_source |-> "raised"]]

\* The mutant of TryExcept: the handler is gone and the exception leaves the
\* function.
TryExcept_unguarded(body, handler) == body

\* try: body / except Exception: return handler
TryExcept(body, handler) == IF body.raised THEN Returned(handler) ELSE body

\* What the collaborators answer during one resolution.
\*   api, api2  the answer of the videos endpoint to the first and the second
\*              request for the item: "none" (no item, quota error, request
\*              error), "full", "nolikes" (statistics without likeCount)
\*   initial    window.ytInitialData: the evaluation raises ("fail"), gives {}
\*              ("empty") or gives data
\*   player     window.ytInitialPlayerResponse, likewise
\*   malformed  the data objects hold a value of an unexpected type, so that
\*              code outside the per-field handlers raises
\*   dom        the per-field DOM probes: raise ("fail"), find nothing
\*              ("none") or find a value ("value")
ResolveEnvs ==
    [api : {"none", "full", "nolikes"}, api2 : {"none", "full", "nolikes"},
     initial : {"fail", "empty", "data"}, player : {"fail", "empty", "data"},
     malformed : BOOLEAN, dom : {"fail", "none", "value"}]

ChannelOf(id) == "UC1"

\* get_video_details_from_api: no record without a key, none on any failure.
get_video_details_from_api(video_id, has_key, answer) ==
    IF ~has_key \/ answer = "none" THEN {}
    ELSE {[video_id |-> video_id, title |-> video_id,
           like_count |-> IF answer = "full" THEN "api" ELSE NULL,
           channel_id |-> ChannelOf(video_id)]}

\* The item a page at page_url shows: the metadata its data objects and its
\* DOM hold are this item's.
Shown(page_url) ==
    IF page_url.path \in {"watch", "shorts"} /\ page_url.id \in Ids
    THEN page_url.id ELSE NULL

detect_content_type(url, has_page, page_url) ==
    IF is_shorts_url(url) THEN "short"
    ELSE IF has_page /\ page_url.path = "shorts" THEN "short"
    ELSE "video"

ErrorRecord(video_id, url) ==
    [video_id |-> video_id, video_url |-> url, data_source |-> "error"]

ApiRecord(api_data, video_id, url, ctype) ==
    [video_id |-> video_id, video_url |-> url, data_source |-> "youtube_api",
     title |-> api_data.title, like_count |-> api_data.like_count,
     channel_id |-> api_data.channel_id, content_type |-> ctype]

\* The fields the rendered page gives: the data objects first, the DOM probe
\* for what they leave empty.
PageHasData(e) == e.player = "data" \/ e.initial = "data"
PageField(e, from_data, from_dom) ==
    IF PageHasData(e) /\ from_data # NULL THEN from_data
    ELSE IF e.dom = "value" THEN from_dom
    ELSE NULL

extract_shorts_metadata(video_id, url, page_url, has_key, e) ==
    LET api == get_video_details_from_api(video_id, has_key, e.api2)
    IN IF api # {}
       THEN Returned(ApiRecord(CHOOSE d \in api : TRUE, video_id, url, "short"))
       ELSE TryExcept(
              IF e.malformed /\ PageHasData(e) THEN Raises
              ELSE Returned(
                [video_id |-> video_id, video_url |-> url,
                 data_source |-> "playwright_shorts",
                 title |-> PageField(e, Shown(page_url), Shown(page_url)),
                 like_count |-> PageField(e, NULL, "page"),
                 channel_id |-> IF Shown(page_url) = NULL THEN NULL
                                ELSE PageField(e, ChannelOf(Shown(page_url)),
                                               ChannelOf(Shown(page_url))),
                 content_type |-> "short"]),
              ErrorRecord(video_id, url))

extract_video_metadata_hybrid(video_id, url, has_page, page_url, has_key, e) ==
    LET api == get_video_details_from_api(video_id, has_key, e.api)
    IN IF api # {}
       THEN Returned(ApiRecord(CHOOSE d \in api : TRUE, video_id, url,
                               detect_content_type(url, FALSE, page_url)))
       ELSE IF ~has_page
       THEN Returned([video_id |-> video_id, video_url |-> url,
                      data_source |-> "none"])
       ELSE IF is_shorts_url(url)
       THEN extract_shorts_metadata(video_id, url, page_url, has_key, e)
       ELSE TryExcept(
              IF e.malformed /\ PageHasData(e) THEN Raises
              ELSE Returned(
                [video_id |-> video_id, video_url |-> url,
                 data_source |-> IF e.player = "data" THEN "playwright_playerjson"
                                 ELSE "playwright_full",
                 title |-> IF PageHasData(e) THEN Shown(page_url) ELSE NULL,
                 like_count |-> PageField(e, IF e.initial = "data" THEN "page"
                                             ELSE NULL, "page"),
                 channel_id |-> IF Shown(page_url) = NULL THEN NULL
                                ELSE PageField(e, ChannelOf(Shown(page_url)),
                                               ChannelOf(Shown(page_url))),
                 content_type |-> detect_content_type(url, TRUE, page_url)]),
              ErrorRecord(video_id, url))

\* ---------------------------------------------------------- output builder

\* get_channel_details_from_api: the channel record, or none.
ChannelAnswers == {"none", "handle", "nohandle"}
get_channel_details_from_api(channel_id, has_key, answer) ==
    IF ~has_key \/ answer = "none" THEN {}
    ELSE {[channel_id |-> channel_id,
           custom_url |-> IF answer = "handle" THEN "@h" ELSE NULL]}

\* The mutant of StartsWithAt: every handle counts as an '@' handle.
StartsWithAt_any(handle) == TRUE
\* handle.startswith("@"), for the handles a channel record holds here
\* ("@h", and "plain" for a custom URL of the older kind).
StartsWithAt(handle) == handle = "@h"

build_unified_output(video, channel) ==
    LET ch == IF channel = {} THEN [none |-> TRUE] ELSE CHOOSE c \in channel : TRUE
        handle == IF Get(ch, "channel_handle") # NULL THEN ch.channel_handle
                  ELSE Get(ch, "custom_url")
        channel_id == IF Get(ch, "channel_id") # NULL THEN ch.channel_id
                      ELSE Get(video, "channel_id")
    IN [id |-> Get(video, "video_id"),
        url |-> Get(video, "video_url"),
        title |-> Get(video, "title"),
        type |-> IF "content_type" \in DOMAIN video THEN video.content_type
                 ELSE "video",
        likes |-> Get(video, "like_count"),
        channelId |-> channel_id,
        channelUrl |-> IF handle # NULL /\ StartsWithAt(handle) THEN "youtube.com/@h"
                       ELSE IF channel_id # NULL THEN "youtube.com/channel/id"
                       ELSE IF Get(ch, "channel_url") # NULL THEN ch.channel_url
                       ELSE Get(video, "channel_url"),
        subtitles |-> Get(video, "subtitles")]

\* ------------------------------------------------------- input and caps

\* input_options.get(key, default)
OptGet(opts, key, default) == IF key \in DOMAIN opts THEN opts[key] ELSE default

\* The default type list: a type is in it when its per-term cap is above 0.
DefaultTypes(opts) ==
    LET v == IF OptGet(opts, "maxVideosPerTerm", 10) > 0 THEN <<"video">> ELSE <<>>
        s == IF OptGet(opts, "maxShortsPerTerm", 0) > 0 THEN <<"shorts">> ELSE <<>>
    IN IF v \o s = <<>> THEN <<"video">> ELSE v \o s

InSeq(x, seq) == \E i \in DOMAIN seq : seq[i] = x

normalize_search_video_types(opts) ==
    LET single == OptGet(opts, "searchVideoType", NULL)
        multiple == OptGet(opts, "searchVideoTypes", <<>>)
        out1 == IF single = NULL THEN multiple
                ELSE IF single = "any" THEN multiple
                ELSE IF single = "short" THEN <<"shorts">>
                ELSE IF multiple = <<>> THEN <<single>> ELSE multiple
        out == [i \in DOMAIN out1 |-> IF out1[i] = "short" THEN "shorts" ELSE out1[i]]
    IN IF single = "any" /\ multiple = <<>> THEN DefaultTypes(opts)
       ELSE IF out = <<>> THEN DefaultTypes(opts)
       ELSE IF InSeq("any", out) THEN DefaultTypes(opts)
       ELSE out

CapKey(type_name) ==
    CASE type_name = "shorts" -> "maxShortsPerTerm"
      [] type_name = "video" -> "maxVideosPerTerm"
      [] type_name = "live" -> "maxStreamsPerTerm"
      [] type_name = "playlist" -> "maxPlaylistsPerTerm"
      [] type_name = "channel" -> "maxChannelsPerTerm"
      [] type_name = "movie" -> "maxMoviesPerTerm"
      [] OTHER -> "maxResults"

get_cap_for_type(type_name, opts, default_overall) ==
    OptGet(opts, CapKey(type_name), OptGet(opts, "maxResults", default_overall))

\* ------------------------------------------------------------ harvesting

\* Round limits of the two harvesting loops.
\* The mutant of max_rounds_channel: one round more.
max_rounds_channel_longer == 60 + 1
max_rounds_channel == 60
max_rounds_search == 80

\* Defaults of maxResults: in main and for a channel's total, and for the
\* per-type caps.
DefaultGlobalMax == 50
DefaultCap == 10

RECURSIVE SeqFilterId(_)
\* [u for u in urls if extract_video_id(u)]
SeqFilterId(urls) ==
    IF urls = <<>> THEN <<>>
    ELSE IF extract_video_id(Head(urls)) # NULL
         THEN <<Head(urls)>> \o SeqFilterId(Tail(urls))
         ELSE SeqFilterId(Tail(urls))

Prefix(seq, n) == SubSeq(seq, 1, IF n < Len(seq) THEN n ELSE Len(seq))

\* The test a channel tab applies to a canonical URL: url_pattern in full.
MatchesPattern(tab, full) ==
    IF tab = "shorts" THEN HasShorts(full) ELSE HasWatch(full)

\* The mutant of InSeen: the seen set is never consulted.
InSeen_never(h, seen0) == FALSE

\* full not in links_seen, h not in seen: the membership tests of the two
\* harvesters.
InSeen(h, seen0) == h \in seen0

\* The hrefs of a round made canonical, as the for loop sees them.
CleanAll(hrefs) == [i \in DOMAIN hrefs |-> clean_video_url(hrefs[i])]

\* The first href of a round, the one the for loop always examines, is in
\* the seen set.
FirstIsSeen(hrefs, seen0) == hrefs # <<>> /\ Head(hrefs) \in seen0

\* The for loop of collect_urls_from_page over the anchors of one round.
RECURSIVE CollectRound(_, _, _, _, _)
CollectRound(hrefs, tab, cap, collected0, links_seen0) ==
    IF hrefs = <<>> \/ Len(collected0) >= cap
    THEN [collected |-> collected0, links_seen |-> links_seen0]
    ELSE LET full == clean_video_url(Head(hrefs))
         IN IF extract_video_id(full) # NULL /\ MatchesPattern(tab, full)
               /\ ~InSeen(full, links_seen0)
            THEN CollectRound(Tail(hrefs), tab, cap, Append(collected0, full),
                              links_seen0 \cup {full})
            ELSE CollectRound(Tail(hrefs), tab, cap, collected0, links_seen0)

\* The URLs of collected_urls a search type counts against its cap.  For
\* "live" and "movie" the test is target_keyword in u or "/watch" in u; no
\* URL here holds the word "live" or "movie".
CountsFor(t, u) ==
    CASE t = "shorts" -> HasShorts(u)
      [] t = "video" -> HasWatch(u)
      [] t \in {"live", "movie"} -> HasWatch(u)
      [] t = "channel" -> u.path = "channel"
      [] t = "playlist" -> u.path = "playlist"
      [] OTHER -> FALSE

CountFor(t, urls) == Cardinality({i \in DOMAIN urls : CountsFor(t, urls[i])})

\* The for loop of a search type over the hrefs of one round: every href not
\* seen before is appended, until the type's count reaches its cap.
RECURSIVE SearchRound(_, _, _, _, _)
SearchRound(hrefs, t, cap, urls0, seen0) ==
    IF hrefs = <<>> \/ CountFor(t, urls0) >= cap
    THEN [collected_urls |-> urls0, seen |-> seen0]
    ELSE IF ~InSeen(Head(hrefs), seen0)
         THEN SearchRound(Tail(hrefs), t, cap, Append(urls0, Head(hrefs)),
                          seen0 \cup {Head(hrefs)})
         ELSE SearchRound(Tail(hrefs), t, cap, urls0, seen0)

\* gather_regular_hrefs: the title links of the video renderers, made
\* canonical, the first of equal ones kept.
RECURSIVE CleanDedupe(_, _)
CleanDedupe(hrefs, out) ==
    IF hrefs = <<>> THEN out
    ELSE LET full == clean_video_url(Head(hrefs))
         IN IF InSeq(full, out) THEN CleanDedupe(Tail(hrefs), out)
            ELSE CleanDedupe(Tail(hrefs), Append(out, full))

gather_regular_hrefs(anchors) == CleanDedupe(anchors, <<>>)

\* gather_shorts_hrefs builds a set of canonical short-form URLs and returns
\* list(set): every order of the set is a possible result.
ShortsSet(anchors) ==
    {ShortsUrl(anchors[i].id) : i \in {j \in DOMAIN anchors : ShortsMatch(anchors[j])}}

Orders(S) ==
    {q \in UNION {[1..n -> S] : n \in {Cardinality(S)}} :
        \A i, j \in DOMAIN q : i # j => q[i] # q[j]}

gather_shorts_hrefs(anchors) == Orders(ShortsSet(anchors))

\* ------------------------------------------------------------------ state

VARIABLES
    input_options,    \* the actor input (get_input)
    YOUTUBE_API_KEY,  \* whether an API key is configured
    apify,            \* HAS_APIFY_CLIENT and a dataset id and a token are set
    STOP_FLAG,        \* set by _signal_handler
    SAVED_IDS,        \* identifiers save_dataset has accepted
    dataset,          \* the records pushed to the Apify dataset
    local_log,        \* the records appended to the local NDJSON file
    page_url,         \* page.url of the one browser page
    pc,               \* where the run is
    caller,           \* the loop of main that dispatched: "urls" or "terms"
    ti,               \* main: index of the next start URL
    si,               \* main: index of the next search term
    total_scraped,    \* main: running total of results
    tfun,             \* the function handling the target
    all_video_urls,   \* scrape_channel_all_videos
    links_seen,       \* scrape_channel_all_videos
    collected,        \* collect_urls_from_page
    tab,              \* collect_urls_from_page: "videos" or "shorts"
    collected_urls,   \* scrape_search
    seen,             \* scrape_search
    types_left,       \* scrape_search: the types of types_order not yet done
    rounds,           \* the round counter of the running harvest loop
    out_rows,         \* out_rows of the channel scraper, results of the search
    ui,               \* index of the next URL of the extraction loop
    channel_cache,    \* the channel records fetched for this target
    aev_url,          \* advanced_extract_video: url
    meta,             \* advanced_extract_video: meta
    gar_url,          \* goto_and_ready: url
    gar_ret,          \* goto_and_ready: the call site it returns to
    faults,           \* incidents so far (bounded by MaxFaults)
    emitted,          \* history: each record forwarded to a sink, whether the
                      \* stop flag was set by then, and with the
                      \* record a run without stop signal forwards in its place
    shadow_subs,      \* history: the subtitles a run without stop signal reads
    started,          \* history: the targets dispatched, in order
    outcomes,         \* history: how each finished target ended
    unavail_detected, \* history: the readiness step of the item in hand
                      \* reported the page unavailable
    push_failed,      \* history: identifiers accepted by a save_dataset call
                      \* whose push to the dataset raised
    offered,          \* history: how often each identifier came to save_dataset
    reoffered,        \* history: a harvest round of this run began with an href
                      \* whose URL was in the seen set of its target
    fetched_channels, \* history: the channel ids for which
                      \* get_channel_details_from_api has returned a record
    listing_unavailable, \* history: the listing page being harvested was
                      \* found unavailable when it was navigated to
    fn_in,            \* the arguments of the function under check
    fn_out            \* its result

cfgVars == <<input_options, YOUTUBE_API_KEY, apify>>
sinkVars == <<SAVED_IDS, dataset, local_log, emitted, offered, push_failed>>
mainVars == <<caller, ti, si, total_scraped, started, outcomes>>
chVars == <<all_video_urls, links_seen, collected, tab>>
ssVars == <<collected_urls, seen, types_left>>
itemVars == <<out_rows, ui, channel_cache>>
aevVars == <<aev_url, meta, shadow_subs, unavail_detected>>
garVars == <<gar_url, gar_ret>>
fnVars == <<fn_in, fn_out>>
histVars == <<reoffered, fetched_channels, listing_unavailable>>
\* What no step of a run changes.
fixedVars == <<cfgVars, fnVars>>
runVars == <<cfgVars, STOP_FLAG, sinkVars, page_url, pc, mainVars, tfun, chVars,
             ssVars, rounds, itemVars, aevVars, garVars, faults, histVars>>
vars == <<runVars, fnVars>>

\* Most incidents in a run: an incident makes a collaborator (the navigation,
\* the page, the sinks) fail for the step in hand.
MaxFaults == 1

all_urls == input_options.startUrls
search_terms == input_options.searchTerms
global_max == OptGet(input_options, "maxResults", DefaultGlobalMax)
downloadSubtitles == OptGet(input_options, "downloadSubtitles", FALSE)
default_cap == OptGet(input_options, "maxResults", DefaultCap)
types == normalize_search_video_types(input_options)
video_cap ==
    IF InSeq("video", types) THEN get_cap_for_type("video", input_options, default_cap)
    ELSE 0
shorts_cap ==
    IF InSeq("shorts", types) THEN get_cap_for_type("shorts", input_options, default_cap)
    ELSE 0
total_cap == OptGet(input_options, "maxResults", DefaultGlobalMax)

\* A startUrls entry {"url": <not a string>}: main appends it as it is.
NonString == Url("", "nonstring", NULL, FALSE, FALSE)
\* A start URL that is neither a channel nor an item: main searches for it.
OtherUrl == Url(WWW, "other", "kw", FALSE, FALSE)

NoMeta == [data_source |-> "unset"]
IdleFn == [fn |-> "none"]

SeqsUpTo(S, n) == UNION {[1..k -> S] : k \in 0..n}

Options(urls, terms, tys, vcap, scap, maxres, subs) ==
    [startUrls |-> urls, searchTerms |-> terms, searchVideoTypes |-> tys,
     maxVideosPerTerm |-> vcap, maxShortsPerTerm |-> scap, maxResults |-> maxres,
     downloadSubtitles |-> subs]

\* A run's configuration: the actor input, whether an API key is configured
\* and whether the Apify dataset is there.
Config(opts, key, ap) == [input |-> opts, key |-> key, apify |-> ap]

\* The start URLs that are items or no strings.
DirectChoices ==
    {Url(WWW, "watch", "a", TRUE, FALSE), Url(SHORT_HOST, "vid", "a", FALSE, FALSE),
     ShortsUrl("b"), NonString}

\* The configurations of the runs checked.
\*  - every list of direct start URLs, without and with key, dataset and
\*    subtitles;
\*  - a channel, a search, a search before an item, and a search term after
\*    a start URL, one item of each type wanted;
\*  - a search that wants more items of each type than maxResults allows in
\*    all;
\*  - a channel of which short-form items are wanted before clips, more than
\*    one of them.
RunConfigs ==
    {Config(Options(u, <<>>, <<"video", "shorts">>, 1, 1, MaxCap, p[3]), p[1], p[2]) :
        u \in SeqsUpTo(DirectChoices, MaxTargets),
        p \in {<<FALSE, FALSE, FALSE>>, <<TRUE, TRUE, TRUE>>, <<FALSE, TRUE, TRUE>>}}
    \cup
    {Config(Options(u, <<>>, <<"video", "shorts">>, 1, 1, MaxCap, FALSE),
            FALSE, FALSE) :
        u \in {<<ChannelUrl("UC1")>>, <<OtherUrl>>,
               <<OtherUrl, Url(WWW, "watch", "a", TRUE, FALSE)>>}}
    \cup
    {Config(Options(u, t, <<"video", "shorts">>, 1, 1, MaxCap, FALSE), FALSE, FALSE) :
        u \in {<<NonString>>, <<Url(WWW, "watch", "a", TRUE, FALSE)>>},
        t \in SeqsUpTo(Keywords, MaxTerms) \ {<<>>}}
    \cup
    {Config(Options(<<OtherUrl>>, <<>>, <<"shorts", "video">>, MaxCap, MaxCap, 1,
                    FALSE), FALSE, FALSE)}
    \cup
    {Config(Options(<<ChannelUrl("UC1")>>, <<>>, <<"shorts", "video">>, 1, MaxCap,
                    MaxCap, FALSE), FALSE, FALSE)}
    \cup
    {Config(Options(<<OtherUrl>>, <<>>, <<"video", "live">>, 1, 1, 1, FALSE),
            FALSE, FALSE)}

\* The globals and the locals before main has dispatched anything.
RunLocalsInit ==
    /\ STOP_FLAG = FALSE
    /\ SAVED_IDS = {}
    /\ dataset = <<>>
    /\ local_log = <<>>
    /\ page_url = BlankUrl
    /\ caller = "urls"
    /\ ti = 1
    /\ si = 1
    /\ total_scraped = 0
    /\ tfun = "none"
    /\ all_video_urls = <<>>
    /\ links_seen = {}
    /\ collected = <<>>
    /\ tab = "videos"
    /\ collected_urls = <<>>
    /\ seen = {}
    /\ types_left = <<>>
    /\ rounds = 0
    /\ out_rows = <<>>
    /\ ui = 1
    /\ channel_cache = {}
    /\ aev_url = BlankUrl
    /\ meta = NoMeta
    /\ gar_url = BlankUrl
    /\ gar_ret = "none"
    /\ faults = 0
    /\ emitted = <<>>
    /\ shadow_subs = NULL
    /\ started = <<>>
    /\ outcomes = <<>>
    /\ unavail_detected = FALSE
    /\ push_failed = {}
    /\ offered = [i \in Ids |-> 0]
    /\ reoffered = FALSE
    /\ fetched_channels = {}
    /\ listing_unavailable = FALSE

RunInit ==
    /\ \E c \in RunConfigs : /\ input_options = c.input
                             /\ YOUTUBE_API_KEY = c.key
                             /\ apify = c.apify
    /\ pc = "main_urls"
    /\ RunLocalsInit

\* No run is under way while a function is checked on its own.
RunIdle ==
    /\ input_options = Options(<<>>, <<>>, <<"video">>, 1, 1, 1, FALSE)
    /\ YOUTUBE_API_KEY = FALSE
    /\ apify = FALSE
    /\ pc = "idle"
    /\ RunLocalsInit

\* No function is under check during a run.
FnIdle == fn_in = IdleFn /\ fn_out = IdleFn

Init == RunInit /\ FnIdle

\* ----------------------------------------------------------------- main

\* The mutant of AfterFailure: a failed target ends the run.
AfterFailure_abort(loop) == "main_finish"

\* except Exception: logging.error(...), and the for loop goes on.
AfterFailure(loop) == IF loop = "urls" THEN "main_urls" ELSE "main_terms"

LoopHead(loop) == IF loop = "urls" THEN "main_urls" ELSE "main_terms"

\* The target function returns n results to main: total_scraped += n.
ReturnToMain(n) ==
    /\ total_scraped' = total_scraped + n
    /\ outcomes' = Append(outcomes, "ok")
    /\ pc' = LoopHead(caller)
    /\ tfun' = "none"

\* The target function raises: main catches at the dispatch.
RaiseToMain ==
    /\ total_scraped' = total_scraped
    /\ outcomes' = Append(outcomes, "failed")
    /\ pc' = AfterFailure(caller)
    /\ tfun' = "none"

\* The dispatch of one target by scrape_search.
EnterSearch ==
    /\ tfun' = "search"
    /\ pc' = "ss_entry"
    /\ collected_urls' = <<>>
    /\ seen' = {}
    /\ types_left' = types

\* One pass of the loop over all_urls: the stop and cap tests, then the
\* dispatch by the kind of URL.
MainUrls ==
    /\ pc = "main_urls"
    /\ UNCHANGED <<fixedVars, histVars, STOP_FLAG, sinkVars, page_url, si, rounds, meta,
                   shadow_subs, unavail_detected, garVars, faults>>
    /\ IF ti > Len(all_urls) \/ STOP_FLAG \/ total_scraped >= global_max
       THEN /\ pc' = "main_search_gate"
            /\ UNCHANGED <<caller, ti, total_scraped, started, outcomes, tfun,
                           chVars, ssVars, itemVars, aev_url>>
       ELSE LET url == all_urls[ti]
            IN /\ ti' = ti + 1
               /\ caller' = "urls"
               /\ started' = Append(started, <<"urls", ti>>)
               /\ IF url = NonString
                  THEN /\ RaiseToMain
                       /\ UNCHANGED <<chVars, ssVars, itemVars, aev_url>>
                  ELSE IF is_channel_url(url)
                  THEN /\ tfun' = "channel"
                       /\ pc' = "ch_video_gate"
                       /\ all_video_urls' = <<>>
                       /\ links_seen' = {}
                       /\ collected' = <<>>
                       /\ tab' = "videos"
                       /\ UNCHANGED <<total_scraped, outcomes, ssVars, itemVars,
                                      aev_url>>
                  ELSE IF is_video_url(url)
                  THEN /\ tfun' = "direct"
                       /\ pc' = "aev_entry"
                       /\ out_rows' = <<>>
                       /\ ui' = ti
                       /\ channel_cache' = {}
                       /\ aev_url' = url
                       /\ UNCHANGED <<total_scraped, outcomes, chVars, ssVars>>
                  ELSE /\ EnterSearch
                       /\ UNCHANGED <<total_scraped, outcomes, chVars, itemVars,
                                      aev_url>>

\* if search_terms and not STOP_FLAG and total_scraped < global_max
MainSearchGate ==
    /\ pc = "main_search_gate"
    /\ pc' = IF search_terms # <<>> /\ ~STOP_FLAG /\ total_scraped < global_max
             THEN "main_terms" ELSE "main_finish"
    /\ UNCHANGED <<fixedVars, histVars, STOP_FLAG, sinkVars, page_url, mainVars, tfun, chVars,
                   ssVars, rounds, itemVars, aevVars, garVars, faults>>

\* One pass of the loop over search_terms.
MainTerms ==
    /\ pc = "main_terms"
    /\ UNCHANGED <<fixedVars, histVars, STOP_FLAG, sinkVars, page_url, ti, total_scraped,
                   outcomes, chVars, rounds, itemVars, aevVars, garVars, faults>>
    /\ IF si > Len(search_terms) \/ STOP_FLAG \/ total_scraped >= global_max
       THEN /\ pc' = "main_finish"
            /\ UNCHANGED <<caller, si, started, tfun, ssVars>>
       ELSE /\ si' = si + 1
            /\ caller' = "terms"
            /\ started' = Append(started, <<"terms", si>>)
            /\ EnterSearch

\* finally: page.close(), browser.close()
MainFinish ==
    /\ pc = "main_finish"
    /\ pc' = "done"
    /\ UNCHANGED <<fixedVars, histVars, STOP_FLAG, sinkVars, page_url, mainVars, tfun, chVars,
                   ssVars, rounds, itemVars, aevVars, garVars, faults>>

\* _signal_handler: SIGINT or SIGTERM arrives, between any two steps of the run.
Signal ==
    /\ pc # "done"
    /\ ~STOP_FLAG
    /\ STOP_FLAG' = TRUE
    /\ UNCHANGED <<fixedVars, histVars, sinkVars, page_url, pc, mainVars, tfun, chVars, ssVars,
                   rounds, itemVars, aevVars, garVars, faults>>

\* ------------------------------------------------- item loops: the return

\* The extraction of one item is over: its locals are dead.
ItemLocalsReset ==
    /\ aev_url' = BlankUrl
    /\ meta' = NoMeta
    /\ shadow_subs' = NULL
    /\ unavail_detected' = FALSE
    /\ gar_url' = BlankUrl
    /\ gar_ret' = "none"

\* advanced_extract_video returns a row to the loop that called it; id is the
\* row's "id" (NULL for {} and for the navigation-error record).  The caller
\* counts the row when it has an id.
ItemReturnRow(id) ==
    /\ ItemLocalsReset
    /\ IF tfun = "direct"
       THEN /\ ReturnToMain(IF id # NULL THEN 1 ELSE 0)
            /\ UNCHANGED <<caller, ti, si, started, out_rows, ui>>
       ELSE /\ pc' = IF tfun = "channel" THEN "ch_items" ELSE "ss_items"
            /\ out_rows' = IF id # NULL THEN Append(out_rows, id) ELSE out_rows
            /\ ui' = ui + 1
            /\ UNCHANGED <<mainVars, tfun>>

\* The same, before the channel cache has been touched.
ItemReturn(id) == ItemReturnRow(id) /\ UNCHANGED channel_cache

\* advanced_extract_video raises: the item loops catch and go on (continue),
\* main catches at its dispatch.
ItemRaise ==
    /\ ItemLocalsReset
    /\ IF tfun = "direct"
       THEN /\ RaiseToMain
            /\ UNCHANGED <<caller, ti, si, started, out_rows, ui, channel_cache>>
       ELSE /\ pc' = IF tfun = "channel" THEN "ch_items" ELSE "ss_items"
            /\ ui' = ui + 1
            /\ UNCHANGED <<mainVars, tfun, out_rows, channel_cache>>

\* ---------------------------------------------------------- goto_and_ready

\* page.goto(url): the navigation begins.  When it fails the exception is
\* logged and page.url stays what it was.
GarGoto ==
    /\ pc = "gar_goto"
    /\ pc' = "gar_check"
    /\ \/ page_url' = gar_url /\ faults' = faults
       \/ faults < MaxFaults /\ page_url' = page_url /\ faults' = faults + 1
    /\ UNCHANGED <<fixedVars, histVars, STOP_FLAG, sinkVars, mainVars, tfun, chVars, ssVars,
                   rounds, itemVars, aevVars, garVars>>

\* goto_and_ready raises to the call site gar_ret.
GarRaise ==
    CASE gar_ret = "col" ->
           \* collect_urls_from_page: except Exception: return collected
           /\ pc' = "col_return"
           /\ UNCHANGED <<sinkVars, mainVars, tfun, itemVars, aevVars, garVars>>
      [] gar_ret = "ss" ->
           \* scrape_search has no handler: the exception reaches main
           /\ RaiseToMain
           /\ gar_url' = BlankUrl /\ gar_ret' = "none"
           /\ UNCHANGED <<sinkVars, caller, ti, si, started, itemVars, aevVars>>
      [] gar_ret = "aev_nav" ->
           \* "Navigation failed": the error record is returned, nothing saved
           /\ ItemReturn(NULL)
           /\ UNCHANGED sinkVars
      [] gar_ret = "aev_subs" ->
           \* except Exception: pass
           /\ pc' = "aev_save"
           /\ UNCHANGED <<sinkVars, mainVars, tfun, itemVars, aevVars, garVars>>

\* goto_and_ready returns to the call site gar_ret, unavailable telling
\* whether it left by one of its unavailable exits (the caller cannot tell).
GarReturn(unavailable) ==
    CASE gar_ret = "col" ->
           \* if is_page_unavailable(page): return []
           /\ \E view \in PageViews :
                /\ pc' = IF is_page_unavailable(view) THEN "col_return" ELSE "col_loop"
                /\ listing_unavailable' = is_page_unavailable(view)
           /\ UNCHANGED <<aevVars>>
      [] gar_ret = "ss" ->
           /\ pc' = "ss_types"
           /\ listing_unavailable' = unavailable
           /\ UNCHANGED <<aevVars>>
      [] gar_ret = "aev_nav" ->
           /\ pc' = "aev_extract"
           /\ unavail_detected' = unavailable
           /\ UNCHANGED <<aev_url, meta, shadow_subs, listing_unavailable>>
      [] gar_ret = "aev_subs" ->
           /\ pc' = "aev_subs_read"
           /\ UNCHANGED <<aevVars, listing_unavailable>>

\* if STOP_FLAG: raise Exception("Stop requested"), then the cascade.
GarCheck ==
    /\ pc = "gar_check"
    /\ UNCHANGED <<fixedVars, reoffered, fetched_channels, STOP_FLAG, page_url, chVars,
                   ssVars, rounds, faults>>
    /\ IF STOP_FLAG
       THEN GarRaise /\ UNCHANGED listing_unavailable
       ELSE /\ \E outcome \in ReadyReturns :
                 GarReturn(outcome \in UnavailableOutcomes)
            /\ UNCHANGED <<sinkVars, mainVars, tfun, itemVars, garVars>>

\* -------------------------------------------------- advanced_extract_video

\* The answers of the collaborators a run draws from: the API answers or
\* not, the page has its data objects, well-formed or not.
RunEnvs ==
    {e \in ResolveEnvs : /\ e.api \in {"none", "full"} /\ e.api2 = e.api
                         /\ e.initial = "data" /\ e.player = "data"
                         /\ e.dom = "none"}

Transcripts == {NULL, "transcript"}

\* meta["subtitles"] = sub
WithSubs(m, sub) ==
    [k \in DOMAIN m \cup {"subtitles"} |-> IF k = "subtitles" THEN sub ELSE m[k]]

\* Whether lines 1248-1283 navigate to nav_url.
NeedsNavigation(nav_url) ==
    IF is_shorts_url(nav_url) THEN TRUE
    ELSE IF ~YOUTUBE_API_KEY THEN url_base(page_url) # url_base(nav_url)
    ELSE downloadSubtitles /\ url_base(page_url) # url_base(nav_url)

\* The mutant of StopBeforeItem: the stop flag is not looked at.
StopBeforeItem_ignored == FALSE

\* if STOP_FLAG: "Stop requested before extracting", return {}
StopBeforeItem == STOP_FLAG

\* The stop test and the identifier test at the head of the function, then
\* the choice whether to navigate.
AevEntry ==
    /\ pc = "aev_entry"
    /\ UNCHANGED <<fixedVars, histVars, STOP_FLAG, sinkVars, page_url, chVars, ssVars, rounds,
                   faults>>
    /\ IF StopBeforeItem \/ extract_video_id(aev_url) = NULL
       THEN ItemReturn(NULL)
       ELSE /\ IF NeedsNavigation(clean_video_url(aev_url))
               THEN /\ pc' = "gar_goto"
                    /\ gar_url' = clean_video_url(aev_url)
                    /\ gar_ret' = "aev_nav"
               ELSE /\ pc' = "aev_extract"
                    /\ UNCHANGED garVars
            /\ UNCHANGED <<mainVars, tfun, itemVars, aevVars>>

\* The subtitle step is taken for every record but the short-form page
\* record, when subtitles are asked for.
SubtitleStep(m) == Get(m, "data_source") # "playwright_shorts" /\ downloadSubtitles

\* meta = extract_video_metadata_hybrid(video_id, nav_url, page=...)
AevExtract ==
    /\ pc = "aev_extract"
    /\ UNCHANGED <<fixedVars, histVars, STOP_FLAG, sinkVars, page_url, chVars, ssVars, rounds,
                   faults>>
    /\ \E e \in RunEnvs :
         LET nav_url == clean_video_url(aev_url)
             r == extract_video_metadata_hybrid(
                    extract_video_id(aev_url), nav_url,
                    is_shorts_url(nav_url) \/ ~YOUTUBE_API_KEY, page_url,
                    YOUTUBE_API_KEY, e)
         IN IF r.raised
            THEN ItemRaise
            ELSE /\ meta' = r.rec
                 /\ pc' = IF SubtitleStep(r.rec) THEN "aev_subs" ELSE "aev_save"
                 /\ UNCHANGED <<mainVars, tfun, itemVars, aev_url, shadow_subs,
                                unavail_detected, garVars>>

\* if page.url.split('?')[0] != nav_url.split('?')[0]: goto_and_ready(...).
\* shadow_subs is the transcript extract_subtitles finds on the page it
\* reads.
AevSubs ==
    /\ pc = "aev_subs"
    /\ \E sub \in Transcripts : shadow_subs' = sub
    /\ IF url_base(page_url) # url_base(clean_video_url(aev_url))
       THEN /\ pc' = "gar_goto"
            /\ gar_url' = clean_video_url(aev_url)
            /\ gar_ret' = "aev_subs"
       ELSE /\ pc' = "aev_subs_read"
            /\ UNCHANGED garVars
    /\ UNCHANGED <<fixedVars, histVars, STOP_FLAG, sinkVars, page_url, mainVars, tfun, chVars,
                   ssVars, rounds, itemVars, aev_url, meta, unavail_detected,
                   faults>>

\* sub = extract_subtitles(page); if sub: meta["subtitles"] = sub
AevSubsRead ==
    /\ pc = "aev_subs_read"
    /\ meta' = IF shadow_subs # NULL THEN WithSubs(meta, shadow_subs) ELSE meta
    /\ pc' = "aev_save"
    /\ UNCHANGED <<fixedVars, histVars, STOP_FLAG, sinkVars, page_url, mainVars, tfun, chVars,
                   ssVars, rounds, itemVars, aev_url, shadow_subs,
                   unavail_detected, garVars, faults>>

\* save_dataset(items) with SAVED_IDS = saved: what it leaves in SAVED_IDS,
\* what reaches the dataset and what the local log.  has_apify: the client,
\* a dataset id and a token are there; fail_at: the slice whose push raises
\* (0: none); local_ok: the local file can be opened and written.
save_dataset(items, saved, has_apify, fail_at, local_ok) ==
    LET d == DedupNew(items, saved, <<>>)
        new == d.new_items
        fallback == ~has_apify \/ PushFailed(fail_at)
    IN [saved |-> d.saved,
        accepted |-> new,
        pushed |-> IF has_apify THEN Pushed(new, fail_at) ELSE <<>>,
        logged |-> IF fallback /\ local_ok THEN new ELSE <<>>]

\* channel_cache.get(channel_id)
CacheGet(cache, channel_id) == {c \in cache : c.channel_id = channel_id}

\* The record of the subtitle step's outcome in a run no signal interrupts.
RefMeta(m, sub) == IF sub # NULL THEN WithSubs(m, sub) ELSE m

SeqIds(recs) == {recs[i].id : i \in DOMAIN recs}

\* The history entries of the records one save forwards: each with its
\* reference record and with whether the stop flag was set by then.
HistoryOf(recs, ref) ==
    [i \in DOMAIN recs |->
        [rec |-> recs[i], ref |-> ref, after_stop |-> STOP_FLAG]]

\* Channel enrichment, build_unified_output, save_dataset([result]), return.
AevSave ==
    /\ pc = "aev_save"
    /\ UNCHANGED <<fixedVars, reoffered, listing_unavailable, STOP_FLAG, page_url, chVars, ssVars, rounds>>
    /\ \E answer \in ChannelAnswers, fail_at \in 0..1, local_ok \in BOOLEAN :
         LET channel_id == Get(meta, "channel_id")
             cached == CacheGet(channel_cache, channel_id)
             lookup == channel_id # NULL /\ YOUTUBE_API_KEY
             fetched == get_channel_details_from_api(channel_id, YOUTUBE_API_KEY,
                                                     answer)
             channel_enrich == IF ~lookup THEN {}
                               ELSE IF cached # {} THEN cached ELSE fetched
             result == build_unified_output(meta, channel_enrich)
             ref == build_unified_output(RefMeta(meta, shadow_subs), channel_enrich)
             s == save_dataset(<<result>>, SAVED_IDS, apify, fail_at, local_ok)
             cost == IF fail_at # 0 \/ ~local_ok THEN 1 ELSE 0
         IN /\ (~lookup \/ cached # {}) => answer = "none"
            /\ fail_at \in 0..NChunks(Len(s.accepted))
            /\ ~apify => fail_at = 0
            /\ ~local_ok => s.accepted # <<>> /\ (~apify \/ fail_at # 0)
            /\ faults + cost <= MaxFaults
            /\ faults' = faults + cost
            /\ channel_cache' = IF lookup THEN channel_cache \cup channel_enrich
                                ELSE channel_cache
            /\ fetched_channels' =
                 IF lookup /\ cached = {} /\ fetched # {}
                 THEN fetched_channels \cup {channel_id} ELSE fetched_channels
            /\ IF result.id # NULL
               THEN /\ SAVED_IDS' = s.saved
                    /\ dataset' = dataset \o s.pushed
                    /\ local_log' = local_log \o s.logged
                    /\ emitted' = emitted \o HistoryOf(s.pushed \o s.logged, ref)
                    /\ offered' = [offered EXCEPT ![result.id] = @ + 1]
                    /\ push_failed' = IF fail_at # 0
                                      THEN push_failed \cup SeqIds(s.accepted)
                                      ELSE push_failed
               ELSE UNCHANGED sinkVars
            /\ ItemReturnRow(result.id)

\* ----------------------------------------------- scrape_channel_all_videos

TabCap(t) == IF t = "shorts" THEN shorts_cap ELSE video_cap
TabUrl(t) ==
    Url(WWW, IF t = "shorts" THEN "channel/shorts" ELSE "channel/videos", "UC1",
        FALSE, FALSE)

\* The anchors a listing page can show.
Anchors ==
    {Url(WWW, "watch", "a", TRUE, FALSE), WatchUrl("b"), ShortsUrl("a"),
     ShortsUrl("b")}
AnchorLists == SeqsUpTo(Anchors, MaxHrefs)

\* What page.evaluate returns on a channel tab: the short-form anchors on
\* the shorts tab, on the videos tab the anchors that are not short-form.
RECURSIVE TabHrefs(_, _)
TabHrefs(t, anchors) ==
    IF anchors = <<>> THEN <<>>
    ELSE IF HasShorts(Head(anchors)) = (t = "shorts")
         THEN <<Head(anchors)>> \o TabHrefs(t, Tail(anchors))
         ELSE TabHrefs(t, Tail(anchors))

\* if "video" in types and video_cap > 0 and not STOP_FLAG: collect the
\* videos tab
ChVideoGate ==
    /\ pc = "ch_video_gate"
    /\ tab' = "videos"
    /\ collected' = <<>>
    /\ IF InSeq("video", types) /\ video_cap > 0 /\ ~STOP_FLAG
       THEN /\ pc' = "gar_goto"
            /\ gar_url' = TabUrl("videos")
            /\ gar_ret' = "col"
       ELSE /\ pc' = "ch_shorts_gate"
            /\ UNCHANGED garVars
    /\ UNCHANGED <<fixedVars, histVars, STOP_FLAG, sinkVars, page_url, mainVars, tfun,
                   all_video_urls, links_seen, ssVars, rounds, itemVars, aevVars,
                   faults>>

\* if "shorts" in types and shorts_cap > 0 and not STOP_FLAG: collect the
\* shorts tab
ChShortsGate ==
    /\ pc = "ch_shorts_gate"
    /\ tab' = "shorts"
    /\ collected' = <<>>
    /\ IF InSeq("shorts", types) /\ shorts_cap > 0 /\ ~STOP_FLAG
       THEN /\ pc' = "gar_goto"
            /\ gar_url' = TabUrl("shorts")
            /\ gar_ret' = "col"
       ELSE /\ pc' = "ch_after"
            /\ UNCHANGED garVars
    /\ UNCHANGED <<fixedVars, histVars, STOP_FLAG, sinkVars, page_url, mainVars, tfun,
                   all_video_urls, links_seen, ssVars, rounds, itemVars, aevVars,
                   faults>>

\* One round of the while loop of collect_urls_from_page: the evaluation of
\* the anchors (hrefs = [] when it raises), the for loop over them, the
\* scroll.  A scroll that raises ends the collection with what it has.
ColRound ==
    /\ pc = "col_loop"
    /\ UNCHANGED <<fixedVars, fetched_channels, listing_unavailable, STOP_FLAG, sinkVars, page_url, mainVars, tfun,
                   all_video_urls, tab, ssVars, itemVars, aevVars, garVars>>
    /\ IF Len(collected) < TabCap(tab) /\ rounds < max_rounds_channel /\ ~STOP_FLAG
       THEN \E anchors \in AnchorLists, scroll_ok \in BOOLEAN :
              LET r == CollectRound(TabHrefs(tab, anchors), tab, TabCap(tab),
                                    collected, links_seen)
              IN /\ collected' = r.collected
                 /\ links_seen' = r.links_seen
                 /\ reoffered' = (reoffered \/ FirstIsSeen(
                                      CleanAll(TabHrefs(tab, anchors)), links_seen))
                 /\ ~scroll_ok => faults < MaxFaults /\ Len(r.collected) < TabCap(tab)
                 /\ faults' = IF scroll_ok THEN faults ELSE faults + 1
                 /\ IF Len(r.collected) >= TabCap(tab) \/ ~scroll_ok
                    THEN pc' = "col_return" /\ rounds' = rounds
                    ELSE pc' = "col_loop" /\ rounds' = rounds + 1
       ELSE /\ pc' = "col_return"
            /\ UNCHANGED <<collected, links_seen, rounds, faults, reoffered>>

\* collect_urls_from_page returns: all_video_urls.extend(...)
ColReturn ==
    /\ pc = "col_return"
    /\ all_video_urls' = all_video_urls \o collected
    /\ collected' = <<>>
    /\ rounds' = 0
    /\ gar_url' = BlankUrl
    /\ gar_ret' = "none"
    /\ pc' = IF tab = "videos" THEN "ch_shorts_gate" ELSE "ch_after"
    /\ listing_unavailable' = FALSE
    /\ UNCHANGED <<fixedVars, reoffered, fetched_channels, STOP_FLAG, sinkVars, page_url, mainVars, tfun,
                   links_seen, tab, ssVars, itemVars, aevVars, faults>>

\* A target function returns n results to main; its locals are dead.
TargetReturn(n) ==
    /\ ReturnToMain(n)
    /\ all_video_urls' = <<>>
    /\ links_seen' = {}
    /\ collected' = <<>>
    /\ tab' = "videos"
    /\ collected_urls' = <<>>
    /\ seen' = {}
    /\ types_left' = <<>>
    /\ out_rows' = <<>>
    /\ ui' = 1
    /\ channel_cache' = {}
    /\ UNCHANGED <<caller, ti, si, started>>

\* if STOP_FLAG: return [], else the defensive filter and the set-up of the
\* extraction loop.
ChAfter ==
    /\ pc = "ch_after"
    /\ UNCHANGED <<fixedVars, histVars, STOP_FLAG, sinkVars, page_url, rounds, aevVars,
                   garVars, faults>>
    /\ IF STOP_FLAG
       THEN TargetReturn(0)
       ELSE /\ all_video_urls' = SeqFilterId(all_video_urls)
            /\ out_rows' = <<>>
            /\ channel_cache' = {}
            /\ ui' = 1
            /\ pc' = "ch_items"
            /\ UNCHANGED <<mainVars, tfun, links_seen, collected, tab, ssVars>>

\* One pass of the loop over all_video_urls[:total_cap].
ChItems ==
    /\ pc = "ch_items"
    /\ UNCHANGED <<fixedVars, histVars, STOP_FLAG, sinkVars, page_url, rounds, meta,
                   shadow_subs, unavail_detected, garVars, faults>>
    /\ IF ui > Len(Prefix(all_video_urls, total_cap)) \/ STOP_FLAG
       THEN /\ TargetReturn(Len(out_rows))
            /\ UNCHANGED aev_url
       ELSE /\ aev_url' = all_video_urls[ui]
            /\ pc' = "aev_entry"
            /\ UNCHANGED <<mainVars, tfun, chVars, ssVars, itemVars>>

\* ------------------------------------------------------------ scrape_search

default_overall == OptGet(input_options, "maxResults", DefaultCap)
cap_for_t(t) == get_cap_for_type(t, input_options, default_overall)

\* The keyword of the target in hand: a search term, or a start URL that is
\* neither a channel nor an item.
Keyword == "kw"

\* if STOP_FLAG: return [], else goto_and_ready(page, url)
SsEntry ==
    /\ pc = "ss_entry"
    /\ UNCHANGED <<fixedVars, histVars, STOP_FLAG, sinkVars, page_url, rounds, aevVars, faults>>
    /\ IF STOP_FLAG
       THEN /\ TargetReturn(0)
            /\ UNCHANGED garVars
       ELSE /\ pc' = "gar_goto"
            /\ gar_url' = ResultsUrl(Keyword)
            /\ gar_ret' = "ss"
            /\ UNCHANGED <<mainVars, tfun, chVars, ssVars, itemVars>>

\* One pass of "for t in types_order": the stop test, the cap of t, and the
\* skip of a type whose cap is not positive.  The loops of the types
\* "channel" and "playlist", which no input here asks for, are left out.
SsTypes ==
    /\ pc = "ss_types"
    /\ rounds' = 0
    /\ IF types_left = <<>> \/ STOP_FLAG
       THEN pc' = "ss_filter" /\ UNCHANGED types_left
       ELSE IF cap_for_t(Head(types_left)) <= 0
               \/ Head(types_left) \notin {"video", "shorts", "live", "movie"}
       THEN pc' = "ss_types" /\ types_left' = Tail(types_left)
       ELSE pc' = "ss_loop" /\ UNCHANGED types_left
    /\ UNCHANGED <<fixedVars, histVars, STOP_FLAG, sinkVars, page_url, mainVars, tfun, chVars,
                   collected_urls, seen, itemVars, aevVars, garVars, faults>>

\* The hrefs one round of type t works on.
RoundHrefs(t, anchors) ==
    IF t = "shorts" THEN gather_shorts_hrefs(anchors)
    ELSE {gather_regular_hrefs(anchors)}

\* One round of the while loop of type t: the gathering, the for loop over
\* the hrefs, the scroll.  When the wheel raises the handler waits instead;
\* when that wait raises too, the exception leaves scrape_search.
SsRound ==
    /\ pc = "ss_loop"
    /\ UNCHANGED <<fixedVars, fetched_channels, listing_unavailable, STOP_FLAG, sinkVars, page_url, chVars, aevVars>>
    /\ LET t == Head(types_left)
       IN IF CountFor(t, collected_urls) < cap_for_t(t)
             /\ rounds < max_rounds_search /\ ~STOP_FLAG
          THEN \E anchors \in AnchorLists, scroll_ok \in BOOLEAN :
                 \E hrefs \in RoundHrefs(t, anchors) :
                   LET r == SearchRound(hrefs, t, cap_for_t(t), collected_urls, seen)
                       full == CountFor(t, r.collected_urls) >= cap_for_t(t)
                   IN /\ reoffered' = (reoffered \/ FirstIsSeen(hrefs, seen))
                      /\ ~scroll_ok => faults < MaxFaults /\ ~full
                      /\ faults' = IF scroll_ok THEN faults ELSE faults + 1
                      /\ IF ~scroll_ok
                         THEN /\ RaiseToMain
                              /\ collected_urls' = <<>>
                              /\ seen' = {}
                              /\ types_left' = <<>>
                              /\ rounds' = 0
                              /\ gar_url' = BlankUrl /\ gar_ret' = "none"
                              /\ UNCHANGED <<caller, ti, si, started, itemVars>>
                         ELSE /\ collected_urls' = r.collected_urls
                              /\ seen' = r.seen
                              /\ IF full
                                 THEN /\ pc' = "ss_types"
                                      /\ types_left' = Tail(types_left)
                                      /\ rounds' = 0
                                 ELSE /\ pc' = "ss_loop"
                                      /\ rounds' = rounds + 1
                                      /\ UNCHANGED types_left
                              /\ UNCHANGED <<mainVars, tfun, itemVars, garVars>>
          ELSE /\ pc' = "ss_types"
               /\ types_left' = Tail(types_left)
               /\ rounds' = 0
               /\ UNCHANGED <<collected_urls, seen, mainVars, tfun, itemVars,
                              garVars, faults, reoffered>>

\* The defensive filter and the set-up of the extraction loop.
SsFilter ==
    /\ pc = "ss_filter"
    /\ collected_urls' = SeqFilterId(collected_urls)
    /\ out_rows' = <<>>
    /\ channel_cache' = {}
    /\ ui' = 1
    /\ pc' = "ss_items"
    /\ gar_url' = BlankUrl
    /\ gar_ret' = "none"
    /\ listing_unavailable' = FALSE
    /\ UNCHANGED <<fixedVars, reoffered, fetched_channels, STOP_FLAG, sinkVars, page_url,
                   mainVars, tfun, chVars, seen, types_left, rounds, aevVars, faults>>

\* One pass of "for u in collected_urls".
SsItems ==
    /\ pc = "ss_items"
    /\ UNCHANGED <<fixedVars, histVars, STOP_FLAG, sinkVars, page_url, rounds, meta,
                   shadow_subs, unavail_detected, garVars, faults>>
    /\ IF ui > Len(collected_urls) \/ STOP_FLAG
       THEN /\ TargetReturn(Len(out_rows))
            /\ UNCHANGED aev_url
       ELSE /\ aev_url' = collected_urls[ui]
            /\ pc' = "aev_entry"
            /\ UNCHANGED <<mainVars, tfun, chVars, ssVars, itemVars>>

\* ------------------------------------------------------------------ the run

Next ==
    \/ MainUrls
    \/ MainSearchGate
    \/ MainTerms
    \/ MainFinish
    \/ Signal
    \/ GarGoto
    \/ GarCheck
    \/ AevEntry
    \/ AevExtract
    \/ AevSubs
    \/ AevSubsRead
    \/ AevSave
    \/ ChVideoGate
    \/ ChShortsGate
    \/ ColRound
    \/ ColReturn
    \/ ChAfter
    \/ ChItems
    \/ SsEntry
    \/ SsTypes
    \/ SsRound
    \/ SsFilter
    \/ SsItems

Spec == Init /\ [][Next]_vars

\* ------------------------------------------- goto_and_ready, on its own

\* One call of goto_and_ready for every combination of what its probes
\* find, with the stop flag set and unset.
ReadyInit ==
    /\ RunIdle
    /\ \E sig \in ReadySignals, stop \in BOOLEAN :
         fn_in = [fn |-> "goto_and_ready", sig |-> sig, stop |-> stop]
    /\ fn_out = IdleFn

ReadyCall ==
    /\ fn_in.fn = "goto_and_ready"
    /\ fn_out = IdleFn
    /\ fn_out' = [fn |-> "goto_and_ready",
                  outcome |-> goto_and_ready(fn_in.sig, fn_in.stop)]
    /\ UNCHANGED <<runVars, fn_in>>

ReadyNext == ReadyCall

SpecReady == ReadyInit /\ [][ReadyNext]_vars

\* ------------------------------ extract_video_metadata_hybrid, on its own

\* One resolution for every item, for a watch and a short-form URL, with and
\* without page and key, the page at the item or blank, and every answer of
\* the collaborators.
ResolveInit ==
    /\ RunIdle
    /\ \E video_id \in Ids, short \in BOOLEAN, has_page \in BOOLEAN,
          at_item \in BOOLEAN, has_key \in BOOLEAN, e \in ResolveEnvs :
         LET url == IF short THEN ShortsUrl(video_id) ELSE WatchUrl(video_id)
         IN fn_in = [fn |-> "extract_video_metadata_hybrid",
                     video_id |-> video_id, url |-> url, has_page |-> has_page,
                     page_url |-> IF at_item THEN url ELSE BlankUrl,
                     has_key |-> has_key, e |-> e]
    /\ fn_out = IdleFn

ResolveCall ==
    /\ fn_in.fn = "extract_video_metadata_hybrid"
    /\ fn_out = IdleFn
    /\ fn_out' = [fn |-> "extract_video_metadata_hybrid",
                  result |-> extract_video_metadata_hybrid(
                               fn_in.video_id, fn_in.url, fn_in.has_page,
                               fn_in.page_url, fn_in.has_key, fn_in.e)]
    /\ UNCHANGED <<runVars, fn_in>>

ResolveNext == ResolveCall

SpecResolve == ResolveInit /\ [][ResolveNext]_vars

\* ------------------------------------------------- parse_count_text_to_int

\* A text is a sequence of characters.  NBSP stands for a character outside
\* ASCII (a no-break space, which is also white space).
NBSP == "U+00A0"
DigitChars == {"0", "1", "2", "3", "4", "5", "6", "7", "8", "9"}
NumChars == DigitChars \cup {"."}
Whitespace == {" ", NBSP}

DigitVal(c) ==
    CASE c = "0" -> 0 [] c = "1" -> 1 [] c = "2" -> 2 [] c = "3" -> 3
      [] c = "4" -> 4 [] c = "5" -> 5 [] c = "6" -> 6 [] c = "7" -> 7
      [] c = "8" -> 8 [] c = "9" -> 9

\* str.lower() on the letters a text holds here.
Lower(c) ==
    CASE c = "K" -> "k" [] c = "M" -> "m" [] c = "B" -> "b" [] OTHER -> c

RECURSIVE LStrip(_)
LStrip(t) == IF t # <<>> /\ Head(t) \in Whitespace THEN LStrip(Tail(t)) ELSE t

RECURSIVE RStrip(_)
RStrip(t) ==
    IF t # <<>> /\ t[Len(t)] \in Whitespace
    THEN RStrip(SubSeq(t, 1, Len(t) - 1)) ELSE t

RECURSIVE Without(_, _)
Without(t, chars) ==
    IF t = <<>> THEN <<>>
    ELSE IF Head(t) \in chars THEN Without(Tail(t), chars)
    ELSE <<Head(t)>> \o Without(Tail(t), chars)

\* t = str(text).lower().strip().replace(",", ""), then the characters
\* outside ASCII removed
CountText(text) ==
    Without(Without(RStrip(LStrip([i \in DOMAIN text |-> Lower(text[i])])), {","}),
            {NBSP})

\* re.search(r'([\d\.]+)\s*(k|m|b)?', t): the leftmost run of digits and
\* dots, taken as long as it goes, then white space, then a suffix if one
\* stands there.  start = 0: no match.
CountMatch(t) ==
    IF \A i \in DOMAIN t : t[i] \notin NumChars
    THEN [start |-> 0, num |-> <<>>, suf |-> NULL]
    ELSE LET start == CHOOSE i \in DOMAIN t :
                         t[i] \in NumChars /\ \A j \in 1..(i - 1) : t[j] \notin NumChars
             end == CHOOSE j \in start..Len(t) :
                       /\ \A k \in start..j : t[k] \in NumChars
                       /\ j = Len(t) \/ t[j + 1] \notin NumChars
             next == CHOOSE n \in (end + 1)..(Len(t) + 1) :
                        /\ \A k \in (end + 1)..(n - 1) : t[k] = " "
                        /\ n = Len(t) + 1 \/ t[n] # " "
         IN [start |-> start, num |-> SubSeq(t, start, end),
             suf |-> IF next <= Len(t) /\ t[next] \in {"k", "m", "b"}
                     THEN t[next] ELSE NULL]

\* float(s) takes digits with at most one dot and at least one digit.
IsFloatLiteral(s) ==
    /\ Cardinality({i \in DOMAIN s : s[i] = "."}) <= 1
    /\ \E i \in DOMAIN s : s[i] \in DigitChars

RECURSIVE DigitsValue(_)
DigitsValue(s) ==
    IF s = <<>> THEN 0
    ELSE DigitsValue(SubSeq(s, 1, Len(s) - 1)) * 10 + DigitVal(s[Len(s)])

RECURSIVE Pow10(_)
Pow10(n) == IF n = 0 THEN 1 ELSE 10 * Pow10(n - 1)

\* The decimal a float literal denotes, as a fraction n / 10^d.
Decimal(s) ==
    LET dot == IF \E i \in DOMAIN s : s[i] = "."
               THEN CHOOSE i \in DOMAIN s : s[i] = "." ELSE Len(s) + 1
    IN [n |-> DigitsValue(Without(s, {"."})),
        den |-> Pow10(IF dot > Len(s) THEN 0 ELSE Len(s) - dot)]

\* A Python int is a natural number of any size: the sequence of its binary
\* digits, the highest first, <<>> for 0.  Arithmetic on it goes by limbs of
\* ten binary digits, the lowest limb first.
LimbBits == 10
LimbBase == 1024

RECURSIVE Pow2(_)
Pow2(n) == IF n = 0 THEN 1 ELSE 2 * Pow2(n - 1)

Zeros(n) == [i \in 1..n |-> 0]

\* The digits without the zeros in front.
Strip(bits) ==
    IF \A i \in DOMAIN bits : bits[i] = 0 THEN <<>>
    ELSE SubSeq(bits,
                CHOOSE i \in DOMAIN bits :
                    bits[i] = 1 /\ \A j \in 1..(i - 1) : bits[j] = 0,
                Len(bits))

\* The number a few binary digits stand for.
RECURSIVE BitsValue(_)
BitsValue(bits) ==
    IF bits = <<>> THEN 0
    ELSE 2 * BitsValue(SubSeq(bits, 1, Len(bits) - 1)) + bits[Len(bits)]

BitsLimbs(bits) ==
    [i \in 1..((Len(bits) + LimbBits - 1) \div LimbBits) |->
        LET hi == Len(bits) - LimbBits * (i - 1)
            lo == IF hi - LimbBits + 1 < 1 THEN 1 ELSE hi - LimbBits + 1
        IN BitsValue(SubSeq(bits, lo, hi))]

LimbsBits(limbs) ==
    LET n == LimbBits * Len(limbs)
    IN Strip([i \in 1..n |->
                LET pos == n - i
                IN (limbs[pos \div LimbBits + 1] \div Pow2(pos % LimbBits)) % 2])

\* The digits of a number below 2^31.
NatBits(n) ==
    LimbsBits([i \in 1..4 |-> (n \div Pow2(LimbBits * (i - 1))) % LimbBase])

\* limbs * mul + carry, for mul and carry below LimbBase
RECURSIVE LimbsTimes(_, _, _)
LimbsTimes(limbs, mul, carry) ==
    IF limbs = <<>> THEN <<carry>>
    ELSE LET t == Head(limbs) * mul + carry
         IN <<t % LimbBase>> \o LimbsTimes(Tail(limbs), mul, t \div LimbBase)

\* limbs // den with the remainder, for den below 2^20
RECURSIVE LimbsDivMod(_, _)
LimbsDivMod(limbs, den) ==
    IF limbs = <<>> THEN [q |-> <<>>, r |-> 0]
    ELSE LET p == LimbsDivMod(Tail(limbs), den)
             t == p.r * LimbBase + Head(limbs)
         IN [q |-> <<t \div den>> \o p.q, r |-> t % den]

\* bits * 1000^e
RECURSIVE TimesThousands(_, _)
TimesThousands(bits, e) ==
    IF e = 0 THEN bits
    ELSE TimesThousands(LimbsBits(LimbsTimes(BitsLimbs(bits), 1000, 0)), e - 1)

\* bits + 1
BitsPlusOne(bits) ==
    IF \A i \in DOMAIN bits : bits[i] = 1 THEN <<1>> \o Zeros(Len(bits))
    ELSE LET j == CHOOSE j \in DOMAIN bits :
                      bits[j] = 0 /\ \A i \in (j + 1)..Len(bits) : bits[i] = 1
         IN [i \in DOMAIN bits |-> IF i < j THEN bits[i] ELSE IF i = j THEN 1 ELSE 0]

\* A Python float is an IEEE 754 double: a significand m of 53 binary digits
\* and a scale k, the value being m / 2^k (m = <<>>: 0.0).
SignificandBits == 53

\* The double for a significand that is rounded up or not: a carry out of
\* the 53 digits moves the scale.
Rounded(m, k, up) ==
    LET m1 == IF up THEN BitsPlusOne(m) ELSE m
    IN IF Len(m1) > SignificandBits
       THEN [m |-> SubSeq(m1, 1, SignificandBits), k |-> k - 1]
       ELSE [m |-> m1, k |-> k]

\* The double nearest to bits / 2^k, ties to even; sticky: the value is a
\* little above bits / 2^k (by less than one unit of the last digit).
RoundToDouble(bits, k, sticky) ==
    LET cut == Len(bits) - SignificandBits
    IN IF cut <= 0 THEN [m |-> bits \o Zeros(0 - cut), k |-> k - cut]
       ELSE LET top == SubSeq(bits, 1, SignificandBits)
                above == sticky \/ \E i \in (SignificandBits + 2)..Len(bits) : bits[i] = 1
                up == /\ bits[SignificandBits + 1] = 1
                      /\ above \/ top[SignificandBits] = 1
            IN Rounded(top, k - cut, up)

\* How many limbs of r / den behind the point float() looks at: 1/den is at
\* least 2^-10 here, so 70 digits hold more than 53 from the first 1 on.
FractionLimbs == 7

\* The first c limbs of r / den behind the point, the highest first, and what
\* remains.
RECURSIVE Fraction(_, _, _)
Fraction(r, den, c) ==
    IF c = 0 THEN [limbs |-> <<>>, r |-> r]
    ELSE LET t == r * LimbBase
             rest == Fraction(t % den, den, c - 1)
         IN [limbs |-> <<t \div den>> \o rest.limbs, r |-> rest.r]

\* float(s): the double nearest to the decimal n / den, ties to even.
float(dec) ==
    IF dec.n = 0 THEN [m |-> <<>>, k |-> 0]
    ELSE LET f == Fraction(dec.n % dec.den, dec.den, FractionLimbs)
             whole == [i \in 1..FractionLimbs |-> f.limbs[FractionLimbs + 1 - i]]
                      \o BitsLimbs(NatBits(dec.n \div dec.den))
         IN RoundToDouble(LimbsBits(whole), LimbBits * FractionLimbs, f.r # 0)

\* num * 1000^e for a double num: the product rounded to the nearest double,
\* ties to even.
FloatTimes(num, e) ==
    IF num.m = <<>> THEN num
    ELSE RoundToDouble(TimesThousands(num.m, e), num.k, FALSE)

\* int(x) for a double x that is not negative: the digits before the point.
FloatToInt(x) ==
    IF x.k <= 0 THEN x.m \o Zeros(0 - x.k)
    ELSE IF x.k >= Len(x.m) THEN <<>>
    ELSE SubSeq(x.m, 1, Len(x.m) - x.k)

\* The factor a suffix stands for, 10^3, 10^6 or 10^9, as a power of 1000.
SuffixFactor(suf) ==
    CASE suf = "k" -> 1 [] suf = "m" -> 2 [] suf = "b" -> 3

parse_count_text_to_int(text) ==
    IF text = <<>> THEN NULL
    ELSE LET t == CountText(text)
             match == CountMatch(t)
         IN IF match.start = 0
            THEN \* d = re.sub(r'[^0-9]', '', t): no digit is left where
                 \* nothing matched
                 NULL
            ELSE IF ~IsFloatLiteral(match.num)
            THEN \* float() raises ValueError: except Exception: return None
                 NULL
            ELSE LET num == float(Decimal(match.num))
                 IN IF match.suf = NULL THEN FloatToInt(num)
                    ELSE FloatToInt(FloatTimes(num, SuffixFactor(match.suf)))

\* ------------------------------------------------------------- durations

\* s.startswith(prefix)
StartsWith(s, prefix) ==
    Len(s) >= Len(prefix) /\ SubSeq(s, 1, Len(prefix)) = prefix

\* s.replace(old, ""), for old of two characters: the occurrences are taken
\* out from the left, none overlapping another.
RECURSIVE ReplacePair(_, _)
ReplacePair(s, old) ==
    IF s = <<>> THEN <<>>
    ELSE IF StartsWith(s, old) THEN ReplacePair(SubSeq(s, 3, Len(s)), old)
    ELSE <<Head(s)>> \o ReplacePair(Tail(s), old)

\* s.split(c): the pieces between the occurrences of the character c.
RECURSIVE Split(_, _)
Split(s, c) ==
    IF \A i \in DOMAIN s : s[i] # c THEN <<s>>
    ELSE LET at == CHOOSE i \in DOMAIN s : s[i] = c /\ \A j \in 1..(i - 1) : s[j] # c
         IN <<SubSeq(s, 1, at - 1)>> \o Split(SubSeq(s, at + 1, Len(s)), c)

Contains(s, c) == \E i \in DOMAIN s : s[i] = c

\* int(s) raises ValueError unless s is a run of digits (no sign or space is
\* among the characters here).
IsIntLiteral(s) == s # <<>> /\ \A i \in DOMAIN s : s[i] \in DigitChars

\* The mutant of IsoSum: an hour counted as sixty seconds.
IsoSum_minutes(h, m, sec) == h * 60 + m * 60 + sec
\* return h*3600 + m*60 + sec
IsoSum(h, m, sec) == h * 3600 + m * 60 + sec

parse_iso8601_duration(duration_str) ==
    IF duration_str = <<>> THEN NULL
    ELSE LET s0 == ReplacePair(duration_str, <<"P", "T">>)
             hasH == Contains(s0, "H")
             partsH == Split(s0, "H")
             s1 == IF hasH THEN partsH[2] ELSE s0
             hasM == Contains(s1, "M")
             partsM == Split(s1, "M")
             s2 == IF hasM THEN partsM[2] ELSE s1
             hasS == Contains(s2, "S")
             secs == Without(s2, {"S"})
         IN IF \/ hasH /\ ~IsIntLiteral(partsH[1])
               \/ hasM /\ ~IsIntLiteral(partsM[1])
               \/ hasS /\ ~IsIntLiteral(secs)
            THEN \* int() raises: except Exception: return None
                 NULL
            ELSE IsoSum(IF hasH THEN DigitsValue(partsH[1]) ELSE 0,
                        IF hasM THEN DigitsValue(partsM[1]) ELSE 0,
                        IF hasS THEN DigitsValue(secs) ELSE 0)

\* The duration the resolver takes from the text the page shows: an ISO code
\* goes to parse_iso8601_duration, a display string is split at its colons;
\* an exception leaves the duration null.
dom_duration(duration_text_dom) ==
    IF duration_text_dom = <<>> THEN NULL
    ELSE IF StartsWith(duration_text_dom, <<"P", "T">>)
    THEN parse_iso8601_duration(duration_text_dom)
    ELSE LET parts == Split(duration_text_dom, ":")
         IN IF Len(parts) \notin {2, 3} THEN NULL
            ELSE IF \E i \in DOMAIN parts : ~IsIntLiteral(parts[i]) THEN NULL
            ELSE IF Len(parts) = 2
            THEN DigitsValue(parts[1]) * 60 + DigitsValue(parts[2])
            ELSE DigitsValue(parts[1]) * 3600 + DigitsValue(parts[2]) * 60
                 + DigitsValue(parts[3])

\* ------------------------------------------------ clean_video_url, on its own

MOBILE == "m.youtube.com"

\* The URLs clean_video_url is checked on: watch links, youtu.be links and
\* short-form paths, with and without further query parameters and fragment,
\* the identifier plain or with an escaped "&".
CleanInputs ==
    {Url(h, p, i, x, f) : h \in {WWW, MOBILE}, p \in {"watch", "shorts"},
                          i \in Ids \cup {EscapedId}, x \in BOOLEAN, f \in BOOLEAN}
    \cup
    {Url(SHORT_HOST, "vid", i, x, f) :
        i \in Ids \cup {EscapedId}, x \in BOOLEAN, f \in BOOLEAN}

CleanInit ==
    /\ RunIdle
    /\ \E u \in CleanInputs : fn_in = [fn |-> "clean_video_url", url |-> u]
    /\ fn_out = IdleFn

\* The URL is cleaned, and the result is cleaned again.
CleanCall ==
    /\ fn_in.fn = "clean_video_url"
    /\ fn_out = IdleFn
    /\ fn_out' = [fn |-> "clean_video_url",
                  once |-> clean_video_url(fn_in.url),
                  twice |-> clean_video_url(clean_video_url(fn_in.url))]
    /\ UNCHANGED <<runVars, fn_in>>

CleanNext == CleanCall

SpecClean == CleanInit /\ [][CleanNext]_vars

\* ------------------------------------------------ the parsers, on their own

\* Longest text parse_count_text_to_int is checked on.
MaxTextLen == 4

CountChars == {"1", "4", ".", ",", "k", "M", "b", " ", "x", NBSP}

\* The texts the contract names.
CountExamples ==
    {<<"1", ".", "2", "K">>, <<"3", "M">>, <<"1", "2", ",", "3", "4", "5">>,
     <<"a", "b", "c">>, <<>>}

CountTexts == SeqsUpTo(CountChars, MaxTextLen) \cup CountExamples

\* Longest free-form text the duration parsers are checked on.
MaxDurationLen == 4

DurationChars == {"P", "T", "H", "M", "S", ":", "1", "2"}

\* The parts of a duration as they are written; <<>>: the part is left out.
HourParts == {<<>>, <<"1">>, <<"1", "0">>}
MinuteParts == {<<>>, <<"2">>, <<"0", "5">>, <<"5", "9">>}
SecondParts == {<<>>, <<"3">>, <<"0", "5">>, <<"5", "9">>}

IsoText(h, m, s) ==
    <<"P", "T">> \o (IF h = <<>> THEN <<>> ELSE h \o <<"H">>)
                 \o (IF m = <<>> THEN <<>> ELSE m \o <<"M">>)
                 \o (IF s = <<>> THEN <<>> ELSE s \o <<"S">>)

\* 'H:MM:SS', or 'MM:SS' where h is left out
DisplayText(h, m, s) ==
    (IF h = <<>> THEN <<>> ELSE h \o <<":">>) \o m \o <<":">> \o s

DurationTexts ==
    SeqsUpTo(DurationChars, MaxDurationLen)
    \cup {IsoText(h, m, s) : h \in HourParts, m \in MinuteParts, s \in SecondParts}
    \cup {DisplayText(h, m, s) : h \in HourParts, m \in MinuteParts \ {<<>>},
                                 s \in SecondParts \ {<<>>}}

ParseInit ==
    /\ RunIdle
    /\ \/ \E text \in CountTexts :
             fn_in = [fn |-> "parse_count_text_to_int", text |-> text]
       \/ \E text \in DurationTexts :
             fn_in = [fn |-> "duration", text |-> text]
    /\ fn_out = IdleFn

CountCall ==
    /\ fn_in.fn = "parse_count_text_to_int"
    /\ fn_out = IdleFn
    /\ fn_out' = [fn |-> "parse_count_text_to_int",
                  result |-> parse_count_text_to_int(fn_in.text)]
    /\ UNCHANGED <<runVars, fn_in>>

\* A duration text is read as the API's duration and as the page's.
DurationCall ==
    /\ fn_in.fn = "duration"
    /\ fn_out = IdleFn
    /\ fn_out' = [fn |-> "duration",
                  iso |-> parse_iso8601_duration(fn_in.text),
                  dom |-> dom_duration(fn_in.text)]
    /\ UNCHANGED <<runVars, fn_in>>

ParseNext == CountCall \/ DurationCall

SpecParse == ParseInit /\ [][ParseNext]_vars

\* -------------------------------------------- build_unified_output, on its own

\* The metadata records and the channel records the builder is checked on:
\* with and without channel identifier and channel URL, the channel record
\* absent, without custom URL, with an '@' handle or with a plain custom URL.
UnifyVideos ==
    {[f \in {"video_id", "video_url", "data_source"} \cup fields |->
        CASE f = "video_id" -> id
          [] f = "video_url" -> WatchUrl(id)
          [] f = "data_source" -> src
          [] f = "channel_id" -> "UC1"
          [] f = "channel_url" -> "youtube.com/c/old"] :
        id \in Ids, src \in {"youtube_api", "playwright_full", "error"},
        fields \in SUBSET {"channel_id", "channel_url"}}

UnifyChannels ==
    {{}} \cup
    {{[f \in {"channel_id", "custom_url"} \cup fields |->
         CASE f = "channel_id" -> "UC1"
           [] f = "custom_url" -> custom
           [] f = "channel_url" -> "youtube.com/c/own"]} :
        custom \in {NULL, "@h", "plain"}, fields \in SUBSET {"channel_url"}}

UnifyInit ==
    /\ RunIdle
    /\ \E video \in UnifyVideos, channel \in UnifyChannels :
         fn_in = [fn |-> "build_unified_output", video |-> video, channel |-> channel]
    /\ fn_out = IdleFn

UnifyCall ==
    /\ fn_in.fn = "build_unified_output"
    /\ fn_out = IdleFn
    /\ fn_out' = [fn |-> "build_unified_output",
                  result |-> build_unified_output(fn_in.video, fn_in.channel)]
    /\ UNCHANGED <<runVars, fn_in>>

UnifyNext == UnifyCall

SpecUnify == UnifyInit /\ [][UnifyNext]_vars

\* ------------------------------- normalize_search_video_types, on its own

\* The actor inputs given to normalize_search_video_types: searchVideoTypes and
\* searchVideoType absent or one of a few values, the two per-term caps absent
\* or between 0 and MaxCap.
TypeLists == {<<>>, <<"any">>, <<"video">>, <<"short">>, <<"shorts", "video">>}
TypeNames == {"any", "short", "video"}
TypeOptions ==
    {[k \in keys |->
        CASE k = "searchVideoTypes" -> multiple
          [] k = "searchVideoType" -> single
          [] k = "maxVideosPerTerm" -> vcap
          [] k = "maxShortsPerTerm" -> scap] :
        keys \in SUBSET {"searchVideoTypes", "searchVideoType",
                          "maxVideosPerTerm", "maxShortsPerTerm"},
        multiple \in TypeLists, single \in TypeNames,
        vcap \in 0..MaxCap, scap \in 0..MaxCap}

TypesInit ==
    /\ RunIdle
    /\ \E opts \in TypeOptions :
         fn_in = [fn |-> "normalize_search_video_types", opts |-> opts]
    /\ fn_out = IdleFn

TypesCall ==
    /\ fn_in.fn = "normalize_search_video_types"
    /\ fn_out = IdleFn
    /\ fn_out' = [fn |-> "normalize_search_video_types",
                  result |-> normalize_search_video_types(fn_in.opts)]
    /\ UNCHANGED <<runVars, fn_in>>

TypesNext == TypesCall

SpecTypes == TypesInit /\ [][TypesNext]_vars

\* ------------------------------------- goto_and_ready, step by step

\* The steps of goto_and_ready that can raise: page.goto, the consent
\* handling, the early unavailability check with its screenshot, the wait for
\* ytInitial*, the selector probes, the document-ready evaluation, the markup
\* scan, the late unavailability check with its screenshot, and the last
\* screenshot.
ReadySteps ==
    {"goto", "consent", "early", "ytinitial", "selector", "doc_ready",
     "html_keywords", "late", "capture"}

\* The mutant of ReadyStep: the step has no handler, its exception leaves the
\* function.
ReadyStep_unguarded(name, found, outcome, raising) ==
    IF name \in raising THEN "raise" ELSE IF found THEN outcome ELSE "next"

\* try: <step>; return / except Exception: <log, pass or continue>.  The
\* step returns from the function with outcome when it finds what it looks
\* for; otherwise, and when it raises, the next step follows.
ReadyStep(name, found, outcome, raising) ==
    IF name \in raising THEN "next" ELSE IF found THEN outcome ELSE "next"

\* The first step of the cascade that does not hand on to the next one.
RECURSIVE FirstExit(_)
FirstExit(steps) ==
    IF steps = <<>> THEN "degraded"
    ELSE IF Head(steps) # "next" THEN Head(steps)
    ELSE FirstExit(Tail(steps))

\* One attempt of the body of goto_and_ready: found tells what each step
\* finds (early and late: whether is_page_unavailable answers yes), raising
\* which steps raise, stop the stop flag after page.goto.
ReadyAttempt(found, raising, stop) ==
    LET nav == ReadyStep("goto", FALSE, "next", raising)
    IN IF nav = "raise" THEN "raise"
       ELSE IF stop THEN "stopped"
       ELSE FirstExit(<<ReadyStep("consent", FALSE, "next", raising),
                        ReadyStep("early", found.early, "unavailable", raising),
                        ReadyStep("ytinitial", found.ytinitial, "ready", raising),
                        ReadyStep("selector", found.selector, "ready_selector", raising),
                        ReadyStep("doc_ready", found.doc_ready, "ready_doc", raising),
                        ReadyStep("html_keywords", found.html_keywords,
                                  "degraded_html", raising),
                        ReadyStep("late", found.late, "unavailable_late", raising),
                        ReadyStep("capture", FALSE, "next", raising)>>)

\* @retry(stop=stop_after_attempt(1), retry=retry_if_exception_type(Exception))
stop_after_attempt == 1

\* The retry decorator around the body: the call's outcome and the number
\* of attempts made.  An attempt that raises is repeated until the attempt
\* limit, and then the call raises.
RECURSIVE Retrying(_, _, _, _)
Retrying(found, raising, stop, attempt_number) ==
    LET outcome == ReadyAttempt(found, raising, stop)
    IN IF outcome \notin {"raise", "stopped"}
       THEN [raised |-> FALSE, outcome |-> outcome, attempts |-> attempt_number]
       ELSE IF attempt_number >= stop_after_attempt
       THEN [raised |-> TRUE, outcome |-> outcome, attempts |-> attempt_number]
       ELSE Retrying(found, raising, stop, attempt_number + 1)

\* What the steps find, every combination.
ReadyFinds ==
    [early : BOOLEAN, ytinitial : BOOLEAN, selector : BOOLEAN,
     doc_ready : BOOLEAN, html_keywords : BOOLEAN, late : BOOLEAN]

StepsInit ==
    /\ RunIdle
    /\ \E found \in ReadyFinds, raising \in SUBSET ReadySteps, stop \in BOOLEAN :
         fn_in = [fn |-> "goto_and_ready", found |-> found, raising |-> raising,
                  stop |-> stop]
    /\ fn_out = IdleFn

StepsCall ==
    /\ fn_in.fn = "goto_and_ready"
    /\ fn_out = IdleFn
    /\ fn_out' = [fn |-> "goto_and_ready",
                  call |-> Retrying(fn_in.found, fn_in.raising, fn_in.stop, 1)]
    /\ UNCHANGED <<runVars, fn_in>>

StepsNext == StepsCall

SpecSteps == StepsInit /\ [][StepsNext]_vars

\* --------------------------------- the href gatherers, on their own

\* The anchor lists a results page shows to one gathering.
GatherLists == SeqsUpTo(Anchors, MaxHrefs + 1)

GatherInit ==
    /\ RunIdle
    /\ \E t \in {"shorts", "video"}, anchors \in GatherLists :
         fn_in = [fn |-> "gather_hrefs", t |-> t, anchors |-> anchors]
    /\ fn_out = IdleFn

\* hrefs = gather_shorts_hrefs(page) in the loop of "shorts",
\* hrefs = gather_regular_hrefs(page) in the other loops.
GatherCall ==
    /\ fn_in.fn = "gather_hrefs"
    /\ fn_out = IdleFn
    /\ \E hrefs \in RoundHrefs(fn_in.t, fn_in.anchors) :
         fn_out' = [fn |-> "gather_hrefs", hrefs |-> hrefs]
    /\ UNCHANGED <<runVars, fn_in>>

GatherNext == GatherCall

SpecGather == GatherInit /\ [][GatherNext]_vars

\* ------------------------------------------------------------- properties

\* How many records of the two sinks carry identifier id.
InSink(sink, id) == Cardinality({i \in DOMAIN sink : sink[i].id = id})
CountIn(id) == InSink(dataset, id) + InSink(local_log, id)

\* C1: however often an identifier comes to save_dataset in a run, the sinks
\* hold at most one record with it, and exactly one when it came at least
\* once and no incident kept a sink from taking it.
C1_EachIdentifierOnce ==
    \A id \in Ids :
        /\ CountIn(id) <= 1
        /\ (offered[id] >= 1 /\ faults = 0) => CountIn(id) = 1

\* An identifier has come to save_dataset twice and one record of it is in
\* the sinks.
C1_Witness == \E id \in Ids : offered[id] >= 2 /\ CountIn(id) = 1

\* The URLs of a channel target collected so far for a tab.
ChannelCount(t) ==
    Cardinality({i \in DOMAIN (all_video_urls \o collected) :
                   MatchesPattern(t, (all_video_urls \o collected)[i])})

\* C2: in every state of a harvest, the URLs of each wanted category
\* collected for the target are no more than the category's cap.
C2_CategoryCapRespected ==
    /\ tfun = "search" =>
         \A t \in {"video", "shorts"} :
            InSeq(t, types) /\ cap_for_t(t) >= 0
              => CountFor(t, collected_urls) <= cap_for_t(t)
    /\ tfun = "channel" =>
         \A t \in {"videos", "shorts"} : ChannelCount(t) <= TabCap(t)

\* C3: the running total of main never exceeds maxResults.
C3_TotalWithinGlobalCap == total_scraped <= global_max

\* C4: no step that begins a page.goto is taken with STOP_FLAG set.
C4_NoNavigationAfterStop ==
    [][(pc = "gar_goto" /\ pc' = "gar_check") => ~STOP_FLAG]_vars

\* C5: every record forwarded to a sink is the record the run forwards for
\* that item when no stop signal arrives.
C5_EmittedAsUninterrupted ==
    \A i \in DOMAIN emitted : emitted[i].rec = emitted[i].ref

\* C6: once the readiness step of an item has reported the page unavailable,
\* no step extracts the item's metadata and none forwards a record.
C6_NoExtractionWhenUnavailable ==
    [][unavail_detected =>
          (~(pc = "aev_extract" /\ pc' # "aev_extract") /\ emitted' = emitted)]_vars

\* A call of goto_and_ready on a page whose body text holds an unavailability
\* phrase.
BodyPhraseCall ==
    /\ fn_out.fn = "goto_and_ready"
    /\ ~fn_in.stop
    /\ fn_in.sig.early.body_phrase

C8_FallbackKeepsEveryRecord ==
    \A id \in push_failed : InSink(local_log, id) >= 1

\* The targets of the run, start URLs and search terms.
NTargets == Len(all_urls) + Len(search_terms)

\* C9: a run that ends with the stop flag unset and the total below the
\* global cap has dispatched every target, whatever targets failed.
C9_LaterTargetsStillDispatched ==
    (pc = "done" /\ ~STOP_FLAG /\ total_scraped < global_max)
        => Len(started) = NTargets

\* A run has ended in which a target failed and a later one was dispatched.
C9_Witness ==
    /\ pc = "done"
    /\ ~STOP_FLAG
    /\ \E i \in DOMAIN outcomes : outcomes[i] = "failed" /\ i < Len(started)

\* A resolution on the page path: the API gives no record, the function has
\* the page.
OnPagePath ==
    /\ fn_in.has_page
    /\ get_video_details_from_api(fn_in.video_id, fn_in.has_key, fn_in.e.api) = {}
    /\ is_shorts_url(fn_in.url) =>
         get_video_details_from_api(fn_in.video_id, fn_in.has_key, fn_in.e.api2) = {}

\* A failure no per-field handler absorbs: the data objects are there and
\* hold a value of an unexpected type.
Unabsorbed == OnPagePath /\ fn_in.e.malformed /\ PageHasData(fn_in.e)

Harvested ==
    IF tfun = "channel" THEN all_video_urls \o collected
    ELSE IF tfun = "search" THEN collected_urls
    ELSE <<>>

NoDuplicates(seq) == \A i, j \in DOMAIN seq : i # j => seq[i] # seq[j]

\* C11: no canonical URL is twice in the list of URLs harvested for a
\* target, whatever the rounds and the categories or tabs showed.
C11_NoCandidateTwice == NoDuplicates(CleanAll(Harvested))

\* A round has begun with an href that was in the seen set, and the list of
\* the target holds more than one URL.
C11_Witness == reoffered /\ Len(Harvested) >= 2 /\ NoDuplicates(CleanAll(Harvested))

\* C12: the rows returned for a channel target have pairwise distinct
\* identifiers.
C12_ChannelRowsDistinct == tfun = "channel" => NoDuplicates(out_rows)

\* The category of a harvested URL, and the place of a category in the list
\* of types the caller asked for (0: not asked for).
CategoryOf(u) == IF HasShorts(u) THEN "shorts" ELSE "video"
PlaceOf(t) ==
    IF InSeq(t, types) THEN CHOOSE i \in DOMAIN types :
                               types[i] = t /\ \A j \in 1..(i - 1) : types[j] # t
    ELSE 0

\* C13: the URLs harvested for a target, which are resolved in the order of
\* the list, stand in the order in which the caller listed their categories.
C13_CategoriesInRequestedOrder ==
    \A i, j \in DOMAIN Harvested :
        i < j => PlaceOf(CategoryOf(Harvested[i])) <= PlaceOf(CategoryOf(Harvested[j]))

\* C14: cleaning a cleaned URL gives the cleaned URL again.
C14_CleanIdempotent ==
    fn_out.fn = "clean_video_url" => fn_out.twice = fn_out.once

\* A text that is a decimal number with a suffix letter right behind it.
SuffixedNumber(text) ==
    /\ Len(text) >= 2
    /\ Lower(text[Len(text)]) \in {"k", "m", "b"}
    /\ \A i \in 1..(Len(text) - 1) : text[i] \in NumChars
    /\ IsFloatLiteral(SubSeq(text, 1, Len(text) - 1))

\* The number of a suffixed text times the factor of its suffix.
SuffixedValue(text) ==
    LET dec == Decimal(SubSeq(text, 1, Len(text) - 1))
        product == TimesThousands(NatBits(dec.n), SuffixFactor(Lower(text[Len(text)])))
    IN LimbsBits(LimbsDivMod(BitsLimbs(product), dec.den).q)

\* C15: '1.2K' gives 1200, '3M' 3000000 and '12,345' 12345; the empty text
\* and a text without digit give null; a number with a suffix k, m or b gives
\* the number times 10^3, 10^6 or 10^9.
C15_CountTextParsed ==
    fn_out.fn = "parse_count_text_to_int" =>
        LET text == fn_in.text
            result == fn_out.result
        IN /\ text = <<"1", ".", "2", "K">> => result = NatBits(1200)
           /\ text = <<"3", "M">> => result = NatBits(3000000)
           /\ text = <<"1", "2", ",", "3", "4", "5">> => result = NatBits(12345)
           /\ (\A i \in DOMAIN text : text[i] \notin DigitChars) => result = NULL
           /\ SuffixedNumber(text) => result = SuffixedValue(text)

\* C16: the ISO code 'PT<h>H<m>M<s>S', each part optional, gives
\* h*3600 + m*60 + s from the API's parser and from the page's; a display
\* string 'H:MM:SS' or 'MM:SS' gives the same sum from the page's.
C16_DurationInSeconds ==
    fn_out.fn = "duration" =>
        \A h \in HourParts, m \in MinuteParts, s \in SecondParts :
            LET sum == 3600 * DigitsValue(h) + 60 * DigitsValue(m) + DigitsValue(s)
            IN /\ fn_in.text = IsoText(h, m, s) =>
                      fn_out.iso = sum /\ fn_out.dom = sum
               /\ (m # <<>> /\ s # <<>> /\ fn_in.text = DisplayText(h, m, s)) =>
                      fn_out.dom = sum
C16_Witness ==
    /\ fn_in = [fn |-> "duration", text |-> <<"1", ":", "0", "5", ":", "5", "9">>]
    /\ fn_out = [fn |-> "duration", iso |-> 0, dom |-> 3959]

\* C17: where the API record of an item has no like count and the rendered
\* page at the item shows one, the resolved record carries a like count.
C17_PageFillsMissingField ==
    fn_out.fn = "extract_video_metadata_hybrid" =>
        LET api == get_video_details_from_api(fn_in.video_id, fn_in.has_key, fn_in.e.api)
        IN (/\ api # {}
            /\ \A d \in api : d.like_count = NULL
            /\ fn_in.has_page
            /\ Shown(fn_in.page_url) = fn_in.video_id
            /\ fn_in.e.dom = "value")
           => /\ ~fn_out.result.raised
              /\ fn_out.result.rec.like_count # NULL

\* C18: a resolution that is through has read the API record or the rendered
\* page: its record's data_source is not 'none', for a clip and for a short,
\* with and without an API key.
C18_FallsBackToPage ==
    pc \in {"aev_subs", "aev_subs_read", "aev_save"} =>
        Get(meta, "data_source") # "none"

\* C19: extract_subtitles is not called for an item whose canonical URL is a
\* short-form URL.
C19_NoSubtitlesForShorts ==
    pc = "aev_subs_read" => ~is_shorts_url(clean_video_url(aev_url))

\* C20: the channels endpoint is asked for a channel's record only when it
\* has returned none for that channel earlier in the run.
C20_ChannelFetchedOncePerRun ==
    [][(/\ pc = "aev_save" /\ pc' # "aev_save"
        /\ Get(meta, "channel_id") # NULL /\ YOUTUBE_API_KEY
        /\ CacheGet(channel_cache, Get(meta, "channel_id")) = {})
       => Get(meta, "channel_id") \notin fetched_channels]_vars

\* The sources of a channel URL, as the records name them.
KnownHandle(channel) == {c.custom_url : c \in {c \in channel : c.custom_url = "@h"}}
KnownChannelId(video, channel) ==
    {c.channel_id : c \in channel} \cup
    (IF Get(video, "channel_id") # NULL THEN {video.channel_id} ELSE {})

\* C21: channelUrl is built from the '@' handle when one is known, else from
\* the channel identifier when one is known, else it is the channel URL the
\* channel record or the metadata record already holds.
C21_ChannelUrlPreference ==
    fn_out.fn = "build_unified_output" =>
        LET video == fn_in.video
            channel == fn_in.channel
            url == fn_out.result.channelUrl
        IN IF KnownHandle(channel) # {} THEN url = "youtube.com/@h"
           ELSE IF KnownChannelId(video, channel) # {} THEN url = "youtube.com/channel/id"
           ELSE url = (IF \E c \in channel : Get(c, "channel_url") # NULL
                       THEN "youtube.com/c/own" ELSE Get(video, "channel_url"))
C21_Witness ==
    /\ fn_out.fn = "build_unified_output"
    /\ \E c \in fn_in.channel : c.custom_url = "plain"
    /\ fn_out.result.channelUrl = "youtube.com/channel/id"

\* The page tiers of data_source.
PageTiers == {"playwright_playerjson", "playwright_full", "playwright_shorts"}

\* C22: an item that is resolved from the rendered page is resolved while the
\* page is at the item's canonical URL (no navigation of the run having
\* failed).
C22_PageShowsResolvedItem ==
    [][(/\ pc = "aev_extract" /\ pc' # "aev_extract"
        /\ faults = 0
        /\ Get(meta', "data_source") \in PageTiers)
       => page_url = clean_video_url(aev_url)]_vars

\* A round of a harvest loop is about to read the anchors of the listing.
RoundAhead ==
    \/ /\ pc = "col_loop"
       /\ Len(collected) < TabCap(tab) /\ rounds < max_rounds_channel /\ ~STOP_FLAG
    \/ /\ pc = "ss_loop"
       /\ CountFor(Head(types_left), collected_urls) < cap_for_t(Head(types_left))
       /\ rounds < max_rounds_search /\ ~STOP_FLAG

\* C23: no round of a harvest loop reads the anchors of or scrolls a listing
\* page that was found unavailable, a channel tab or a results page.
C23_UnavailableListingNotHarvested == listing_unavailable => ~RoundAhead

\* C24: a harvest loop is at no time past its 60th (channel tab) or 80th
\* (search category) round; a step that stays in the loop counts one round
\* more, or is the arrival of the stop signal, which ends the loop at its
\* next test; the counter never decreases within a category.
C24_HarvestLoopsBounded ==
    [][/\ pc = "col_loop" =>
            /\ rounds <= 60
            /\ pc' = "col_loop" =>
                 \/ rounds' = rounds + 1 /\ rounds' <= 60
                 \/ rounds' = rounds /\ ~STOP_FLAG /\ STOP_FLAG'
       /\ pc = "ss_loop" =>
            /\ rounds <= 80
            /\ pc' = "ss_loop" =>
                 \/ rounds' = rounds + 1 /\ rounds' <= 80
                 \/ rounds' = rounds /\ ~STOP_FLAG /\ STOP_FLAG']_vars
C24_Witness ==
    /\ pc = "col_loop" /\ rounds = max_rounds_channel
    /\ Len(collected) < TabCap(tab) /\ ~STOP_FLAG

\* C25: a round of a harvest loop after which the loop scrolls and goes on
\* has appended a URL to the collected list.
C25_LoopEndsWithoutNewItem ==
    [][/\ (pc = "col_loop" /\ pc' = "col_loop" /\ rounds' = rounds + 1)
            => collected' # collected
       /\ (pc = "ss_loop" /\ pc' = "ss_loop" /\ rounds' = rounds + 1)
            => collected_urls' # collected_urls]_vars

\* C26: the loop of a search category starts with nothing counted against
\* the category's cap: what earlier categories collected does not count.
C26_CategoriesCappedSeparately ==
    (pc = "ss_loop" /\ rounds = 0) =>
        CountFor(Head(types_left), collected_urls) = 0

\* The input names no category: no list (or an empty one) and no single type
\* other than "any".
NoExplicitTypes(opts) ==
    /\ OptGet(opts, "searchVideoTypes", <<>>) = <<>>
    /\ OptGet(opts, "searchVideoType", NULL) \in {NULL, "any"}

\* C27: when the input names no category, the normalised list holds "video"
\* exactly when maxVideosPerTerm (10 when absent) is above 0 and "shorts"
\* exactly when maxShortsPerTerm (0 when absent) is above 0.
C27_ZeroCapExcludesCategory ==
    (/\ fn_out # IdleFn
     /\ fn_out.fn = "normalize_search_video_types"
     /\ NoExplicitTypes(fn_in.opts))
    => /\ InSeq("video", fn_out.result)
            <=> OptGet(fn_in.opts, "maxVideosPerTerm", 10) > 0
       /\ InSeq("shorts", fn_out.result)
            <=> OptGet(fn_in.opts, "maxShortsPerTerm", 0) > 0

\* C28: a call of goto_and_ready raises only when the stop flag is set,
\* whichever of its steps fail, and the body is attempted once.
C28_RaisesOnlyWhenStopped ==
    (fn_out # IdleFn /\ fn_out.fn = "goto_and_ready" /\ "call" \in DOMAIN fn_out)
    => /\ fn_out.call.raised <=> fn_in.stop
       /\ fn_out.call.raised => fn_out.call.outcome = "stopped"
       /\ fn_out.call.attempts = 1

\* Every step raises and the stop flag is unset: the call returns.
C28_Witness ==
    /\ fn_out # IdleFn /\ fn_out.fn = "goto_and_ready" /\ "call" \in DOMAIN fn_out
    /\ fn_in.raising = ReadySteps /\ ~fn_in.stop
    /\ ~fn_out.call.raised /\ fn_out.call.outcome = "degraded"

\* The runs in which the stop signal is followed to the end: those of
\* RunConfigs with one start URL at most and no search term, the channel and
\* the search that want one item of each type, the search before an item, and
\* the search term after a start URL that is no string.
StopConfigs ==
    {c \in RunConfigs :
        LET urls == c.input.startUrls
        IN IF c.input.searchTerms # <<>> THEN urls = <<NonString>>
           ELSE IF c.input.searchVideoTypes # <<"video", "shorts">> THEN FALSE
           ELSE Len(urls) <= 1 \/ urls[1] = OtherUrl}

StopInit ==
    /\ \E c \in StopConfigs : /\ input_options = c.input
                              /\ YOUTUBE_API_KEY = c.key
                              /\ apify = c.apify
    /\ pc = "main_urls"
    /\ RunLocalsInit
    /\ FnIdle

\* The run with its steps taken as long as one is there to take: the
\* interpreter goes on until main returns.
FairSpec == StopInit /\ [][Next]_vars /\ WF_vars(Next)

\* The records forwarded to a sink after the stop flag was set.
EmittedAfterStop == {i \in DOMAIN emitted : emitted[i].after_stop}

\* C29: once STOP_FLAG is set, at most one more record reaches a sink, no
\* item extraction begins, no target is dispatched, and the run comes to its
\* cleanup.
C29_StopWindsDown ==
    /\ [](Cardinality(EmittedAfterStop) <= 1)
    /\ [][STOP_FLAG =>
             /\ started' = started
             /\ pc = "aev_entry" => pc' \notin {"gar_goto", "aev_extract"}]_vars
    /\ (STOP_FLAG ~> pc = "done")

\* The signal arrived while an item was in hand, the item's record was
\* forwarded, and the run has ended without the later targets.
C29_Witness ==
    /\ pc = "done" /\ STOP_FLAG
    /\ Cardinality(EmittedAfterStop) = 1
    /\ Len(started) < NTargets

\* The canonical URL under which the gatherer of type t returns anchor h.
Canonical(t, h) == IF t = "shorts" THEN ShortsUrl(h.id) ELSE clean_video_url(h)

\* Where in the anchor list the link returned as u is first seen.
FirstSeen(t, u, anchors) ==
    CHOOSE k \in DOMAIN anchors :
        /\ Canonical(t, anchors[k]) = u
        /\ \A m \in 1..(k - 1) : Canonical(t, anchors[m]) # u

\* C30: the hrefs of a gathering come in the order in which the page shows
\* their links first, for the short-form gatherer as for the regular one.
C30_FirstSeenOrder ==
    (fn_out # IdleFn /\ fn_out.fn = "gather_hrefs")
    => \A i, j \in DOMAIN fn_out.hrefs :
         i < j => FirstSeen(fn_in.t, fn_out.hrefs[i], fn_in.anchors)
                    < FirstSeen(fn_in.t, fn_out.hrefs[j], fn_in.anchors)
=============================================================================
